---- MODULE Spec2Model ----
(***************************************************************************)
(* Model of the perseval backend: the daily rate limiter, the reputation   *)
(* cache, the influencer submission workflow and the voting ledger, as     *)
(* implemented under backend/app and backend/api/routes.py.                *)
(*                                                                         *)
(* Request handlers run on any number of stateless instances that share    *)
(* one Supabase store.  Every store call of a handler is one atomic step   *)
(* of the model; steps of different requests interleave freely.  A store   *)
(* call may fail (the repository functions catch the exception and return  *)
(* None / False); this is the `ok` input of the step.                      *)
(*                                                                         *)
(* Text is modelled as a sequence of characters where the code looks into  *)
(* it (handles, Authorization headers) and as an opaque string elsewhere.  *)
(* None is the string "<none>"; an optional record is <<>> or <<r>>.       *)
(* Time is counted in whole days.                                          *)
(***************************************************************************)
EXTENDS Integers, Sequences, FiniteSets, TLC

----------------------------------------------------------------------------
(* Bounds of the model *)

NumProcs == 2
MaxSubs == 1
MaxLimit == 3
MaxDay == 1
MaxNow == 9
MaxCalls == 4
MaxCacheOps == 3
MaxVoteOps == 3
MaxCreate == 4

(* Program constants *)

CACHE_EXPIRATION_DAYS == 7
ERROR_TRUNCATE == 500
SUBMISSION_LIMIT == 3
VOTE_LIMIT == 20
ONE == 1000000

None == "<none>"
NoTime == 0 - 1
Omitted == "<omitted>"

Procs == 1..NumProcs

(* Inputs *)

Handles == { <<"a">>, <<"A">>, <<"@", "a">>, <<"b">> }
Platforms == { "instagram", "tiktok" }
Clients == { "ip1", "unknown" }
Groups == { "analysis", "influencer", "admin" }
Hosts == { "ip1", None }
Texts == { <<" ">>, <<"h", "i">> }
Limiters == { "daily", "feedback", "submission", "vote" }
Payloads == { "t1", "t2" }
Notes == { None, "note" }
Reasons == { Omitted, None, "", "spam" }
Decisions == { "approved", "rejected" }
ErrLens == { 10, 600 }
AdminHosts == { "ip1" }
SubHandles == { <<"@", "A">> }
SubPlatforms == { "instagram" }
AdminKeys == { None, "k1" }
AuthHeaders == { <<>>, <<"k1">>, <<"Bearer ", "k1">>, <<"Bearer ", "k2">>,
                 <<"Bearer ", " ", "k1", " ">> }

----------------------------------------------------------------------------
(* Text helpers *)

RECURSIVE LStripAt(_)
\* str.lstrip("@"): drop every leading "@"
LStripAt(s) ==
    IF s # <<>> /\ Head(s) = "@" THEN LStripAt(Tail(s)) ELSE s

LowerChar(c) == IF c = "A" THEN "a" ELSE IF c = "B" THEN "b" ELSE c

\* str.lower()
Lower(s) == [i \in 1..Len(s) |-> LowerChar(s[i])]

RECURSIVE LStripSpace(_)
LStripSpace(s) ==
    IF s # <<>> /\ Head(s) = " " THEN LStripSpace(Tail(s)) ELSE s

RECURSIVE RStripSpace(_)
RStripSpace(s) ==
    IF s # <<>> /\ s[Len(s)] = " " THEN RStripSpace(SubSeq(s, 1, Len(s) - 1)) ELSE s

\* str.strip()
Strip(s) == RStripSpace(LStripSpace(s))

RECURSIVE RemoveToken(_, _)
\* str.replace(tok, "")
RemoveToken(s, tok) ==
    IF s = <<>> THEN <<>>
    ELSE IF Head(s) = tok THEN RemoveToken(Tail(s), tok)
    ELSE <<Head(s)>> \o RemoveToken(Tail(s), tok)

----------------------------------------------------------------------------
VARIABLES
    configured,   \* get_supabase_client() is not None (fixed per deployment)
    adminApiKey,  \* settings.admin_api_key
    dailyLimit,   \* settings.rate_limit_daily_limit
    now,          \* the clock, in days
    rlCount,      \* rate-limit counters, one per (client, group, day)
    rlLog,        \* per (client, group, day): outcomes of the checks made
    subs,         \* influencer_submissions table, row id = index
    market,       \* marketplace_influencers table
    cache,        \* influencer_cache table
    votes,        \* influencer_votes table
    feedback,     \* user_feedback table
    procs,        \* request handlers in flight
    last,         \* the response sent most recently
    hist          \* observations used to state properties

vars == << configured, adminApiKey, dailyLimit, now, rlCount, rlLog, subs,
           market, cache, votes, feedback, procs, last, hist >>

----------------------------------------------------------------------------
(* RateLimiter: backend/app/core/rate_limiter.py and                       *)
(* backend/app/repositories/rate_limit.py                                  *)

Max(a, b) == IF a >= b THEN a ELSE b

\* Value of a response field the handler does not fill in.
NotReported == 0 - 1

\* get_client_ip: the direct connection address, or "unknown"
get_client_ip(host) == IF host # None THEN host ELSE "unknown"

\* The store function check_and_increment_rate_limit(p_client_ip,
\* p_endpoint_group, p_daily_limit): one atomic read-modify-write of the
\* counter of (client, group, today).  The counter row is created with
\* count 0 on first use; a call that finds the quota used up is denied and
\* reports the count unchanged.
RpcCheckAndIncrement(count, limit) ==
    IF count + 1 <= limit
    THEN [allowed |-> TRUE, current_count |-> count + 1, stored |-> count + 1]
    ELSE [allowed |-> FALSE, current_count |-> count, stored |-> count]

\* A status function that counts the read as a request.
RpcGetRateLimitStatus_Counting(count) ==
    [data |-> << [current_count |-> count + 1] >>, stored |-> count + 1]

\* The store function get_rate_limit_status: a read of the counter row, no
\* data when the row does not exist yet; `stored` is the count the row holds
\* after the call.
RpcGetRateLimitStatus(count) ==
    [data |-> IF count = 0 THEN <<>> ELSE << [current_count |-> count] >>,
     stored |-> count]

\* The count of a counter row; a key without a row counts 0.
CountOf(k) == IF k \in DOMAIN rlCount THEN rlCount[k] ELSE 0

\* The log of a key; empty for a key never checked.
LogOf(k) == IF k \in DOMAIN rlLog THEN rlLog[k] ELSE <<>>

\* f with the value at key k set to v, the row being created if missing.
Put(f, k, v) == [x \in DOMAIN f \cup {k} |-> IF x = k THEN v ELSE f[x]]

\* repositories/rate_limit.py check_and_increment_rate_limit: the RPC result,
\* or <<>> (None) when there is no client or the call raises.
check_and_increment_rate_limit(client_ip, endpoint_group, daily_limit, ok) ==
    IF ~configured THEN <<>>
    ELSE IF ~ok THEN <<>>
    ELSE << RpcCheckAndIncrement(CountOf(<<client_ip, endpoint_group, now>>),
                                  daily_limit) >>

\* A limiter that hands the store a limit one too high.
RateLimitArgOffByOne == dailyLimit + 1

\* The limit check_rate_limit hands to the store.
RateLimitArg == dailyLimit

\* A limiter that refuses only once the reported count exceeds the limit.
check_rate_limit_CountExceeds(host, endpoint_group, ok) ==
    LET client_ip == get_client_ip(host)
        result == check_and_increment_rate_limit(client_ip, endpoint_group,
                                                 RateLimitArg, ok)
    IN
    IF ~configured \/ result = <<>>
    THEN [code |-> 0, answered |-> FALSE, allowed |-> TRUE,
          current_count |-> 0, remaining |-> NotReported, stored |-> 0]
    ELSE IF result[1].current_count > dailyLimit
    THEN [code |-> 429, answered |-> TRUE, allowed |-> FALSE,
          current_count |-> result[1].current_count,
          remaining |-> Max(0, dailyLimit - result[1].current_count),
          stored |-> result[1].stored]
    ELSE [code |-> 0, answered |-> TRUE, allowed |-> TRUE,
          current_count |-> result[1].current_count,
          remaining |-> NotReported,
          stored |-> result[1].stored]

\* core/rate_limiter.py check_rate_limit: code 0 when the request may go on,
\* 429 when it is refused.  `answered` tells whether the store decided.
check_rate_limit(host, endpoint_group, ok) ==
    LET client_ip == get_client_ip(host)
        result == check_and_increment_rate_limit(client_ip, endpoint_group,
                                                 RateLimitArg, ok)
    IN
    IF ~configured
    THEN [code |-> 0, answered |-> FALSE, allowed |-> TRUE,
          current_count |-> 0, remaining |-> NotReported, stored |-> 0]
    ELSE IF result = <<>>
    THEN [code |-> 0, answered |-> FALSE, allowed |-> TRUE,
          current_count |-> 0, remaining |-> NotReported, stored |-> 0]
    ELSE IF ~result[1].allowed
    THEN [code |-> 429, answered |-> TRUE, allowed |-> FALSE,
          current_count |-> result[1].current_count,
          remaining |-> Max(0, dailyLimit - result[1].current_count),
          stored |-> result[1].stored]
    ELSE [code |-> 0, answered |-> TRUE, allowed |-> TRUE,
          current_count |-> result[1].current_count,
          remaining |-> NotReported,
          stored |-> result[1].stored]

\* The counters after a check_rate_limit call with outcome r.
RlCountAfter(host, endpoint_group, r) ==
    IF r.answered
    THEN Put(rlCount, <<get_client_ip(host), endpoint_group, now>>, r.stored)
    ELSE rlCount

\* The log of the decisions the store took for the key of an /analyze/text
\* or /influencer/stats request, in the order taken.
RlLogAfter(host, endpoint_group, r) ==
    LET k == <<get_client_ip(host), endpoint_group, now>> IN
    IF r.answered
    THEN Put(rlLog, k, Append(LogOf(k), [allowed |-> r.allowed,
                                         code |-> r.code,
                                         current_count |-> r.current_count,
                                         remaining |-> r.remaining]))
    ELSE rlLog

\* Which policy a limiter applied when the store could not decide.
PolicyAfter(limiter, undecided, passed) ==
    IF undecided
    THEN [hist EXCEPT !.policy[limiter] =
              @ \cup {IF passed THEN "open" ELSE "closed"}]
    ELSE hist

----------------------------------------------------------------------------
(* Initial state: empty tables, idle handlers *)

IdleProc == [op |-> "idle", pc |-> "idle"]
NoResp == [op |-> "none", code |-> 0]

\* policy: what each limiter did when the store could not decide;
\* calls: requests made so far (bounded per specification); trace: whether
\* the responses of the multi-step handlers are kept in `last`; lastPut:
\* the latest cache write that succeeded; cap: how many submissions the
\* specification lets be created; voteCalls: the vote calls the
\* store has counted per voter in the current hour; lastWrite: per (handle,
\* platform, voter) the latest vote write the store performed.
InitHist ==
    [policy |-> [l \in Limiters |-> {}],
     calls |-> 0,
     trace |-> TRUE,
     lastPut |-> <<>>,
     cap |-> MaxSubs,
     voteCalls |-> << >>,
     lastWrite |-> << >>]

InitTables ==
    /\ configured \in BOOLEAN
    /\ adminApiKey \in AdminKeys
    /\ now = 0
    /\ rlCount = << >>
    /\ rlLog = << >>
    /\ subs = <<>>
    /\ market = {}
    /\ cache = {}
    /\ votes = {}
    /\ feedback = <<>>
    /\ procs = [p \in Procs |-> IdleProc]
    /\ last = NoResp

Init ==
    /\ InitTables
    /\ dailyLimit \in 1..MaxLimit
    /\ hist = InitHist

\* A day passes (the model stops the clock at day `max`).
NextDay(max) ==
    /\ now < max
    /\ now' = now + 1
    /\ UNCHANGED << configured, adminApiKey, dailyLimit, rlCount, rlLog, subs,
                    market, cache, votes, procs, last, hist, feedback >>

----------------------------------------------------------------------------
(* Rate-limited endpoints of backend/api/routes.py *)

\* POST /analyze/text
analyze_text(host, text, ok, llm_ok) ==
    /\ hist.calls < MaxCalls
    /\ LET r == check_rate_limit(host, "analysis", ok)
           cleaned_text == Strip(text)
       IN
       /\ rlCount' = RlCountAfter(host, "analysis", r)
       /\ rlLog' = RlLogAfter(host, "analysis", r)
       /\ hist' = [PolicyAfter("daily", ~r.answered, r.code = 0)
                       EXCEPT !.calls = @ + 1]
       /\ last' =
              IF r.code = 429
              THEN [op |-> "analyze_text", code |-> 429,
                    current_count |-> r.current_count,
                    remaining |-> r.remaining, limit |-> dailyLimit]
              ELSE IF cleaned_text = <<>>
              THEN [op |-> "analyze_text", code |-> 400]
              ELSE IF ~llm_ok
              THEN [op |-> "analyze_text", code |-> 500]
              ELSE [op |-> "analyze_text", code |-> 200]
    /\ UNCHANGED << configured, adminApiKey, dailyLimit, now, subs, market,
                    cache, votes, procs, feedback >>

\* POST /influencer/stats
influencer_stats(host, handle, ok, fetch_ok) ==
    /\ hist.calls < MaxCalls
    /\ LET r == check_rate_limit(host, "influencer", ok)
       IN
       /\ rlCount' = RlCountAfter(host, "influencer", r)
       /\ rlLog' = RlLogAfter(host, "influencer", r)
       /\ hist' = [PolicyAfter("daily", ~r.answered, r.code = 0)
                       EXCEPT !.calls = @ + 1]
       /\ last' =
              IF r.code = 429
              THEN [op |-> "influencer_stats", code |-> 429,
                    current_count |-> r.current_count,
                    remaining |-> r.remaining, limit |-> dailyLimit]
              ELSE IF Strip(handle) = <<>>
              THEN [op |-> "influencer_stats", code |-> 400]
              ELSE IF ~fetch_ok
              THEN [op |-> "influencer_stats", code |-> 502]
              ELSE [op |-> "influencer_stats", code |-> 200]
    /\ UNCHANGED << configured, adminApiKey, dailyLimit, now, subs, market,
                    cache, votes, procs, feedback >>

NextRL ==
    \/ \E host \in Hosts, text \in Texts, ok \in BOOLEAN, llm_ok \in BOOLEAN :
          analyze_text(host, text, ok, llm_ok)
    \/ \E host \in Hosts, handle \in {<<"a">>, <<" ">>},
          ok \in BOOLEAN, fetch_ok \in BOOLEAN :
          influencer_stats(host, handle, ok, fetch_ok)
    \/ NextDay(MaxDay)

InitRL == Init /\ adminApiKey = None

SpecRL == InitRL /\ [][NextRL]_vars

\* repositories/rate_limit.py get_rate_limit_status: the RPC result, or
\* None when there is no client, the call raises or the row does not exist.
rate_limit_repo_get_rate_limit_status(client_ip, endpoint_group, ok) ==
    IF ~configured \/ ~ok
    THEN [data |-> <<>>, answered |-> FALSE, stored |-> 0]
    ELSE LET r == RpcGetRateLimitStatus(
                      CountOf(<<client_ip, endpoint_group, now>>))
         IN [data |-> r.data, answered |-> TRUE, stored |-> r.stored]

\* core/rate_limiter.py get_rate_limit_status: the remaining quota of the
\* client for the group today.
get_rate_limit_status(host, endpoint_group, ok) ==
    LET client_ip == get_client_ip(host)
        k == <<client_ip, endpoint_group, now>>
        r == rate_limit_repo_get_rate_limit_status(client_ip, endpoint_group,
                                                    ok)
    IN
    /\ rlCount' = IF r.answered /\ r.stored # CountOf(k)
                  THEN Put(rlCount, k, r.stored)
                  ELSE rlCount
    /\ last' =
           IF ~configured
           THEN [op |-> "get_rate_limit_status", remaining |-> 0,
                 limit |-> dailyLimit, error |-> TRUE,
                 host |-> host, group |-> endpoint_group]
           ELSE IF r.data # <<>>
           THEN [op |-> "get_rate_limit_status",
                 remaining |-> Max(0, dailyLimit - r.data[1].current_count),
                 limit |-> dailyLimit, error |-> FALSE,
                 host |-> host, group |-> endpoint_group]
           ELSE [op |-> "get_rate_limit_status", remaining |-> dailyLimit,
                 limit |-> dailyLimit, error |-> FALSE,
                 host |-> host, group |-> endpoint_group]
    /\ UNCHANGED << configured, adminApiKey, dailyLimit, now, rlLog, subs,
                    market, cache, votes, procs, hist, feedback >>

NextStatus ==
    \/ \E host \in Hosts, ok \in BOOLEAN :
          analyze_text(host, <<"a">>, ok, TRUE)
    \/ \E host \in Hosts, ok \in BOOLEAN :
          influencer_stats(host, <<"a">>, ok, TRUE)
    \/ \E host \in Hosts, g \in Groups, ok \in BOOLEAN :
          get_rate_limit_status(host, g, ok)
    \/ NextDay(MaxDay)

SpecStatus == InitRL /\ [][NextStatus]_vars

----------------------------------------------------------------------------
(* The store's upsert and ReputationCache: backend/app/repositories/cache.py *)

\* A table without the unique key: every upsert adds a row.
Upsert_Insert(table, row, key) == table \cup {row}

\* table.upsert(row, on_conflict=key): the row replaces the rows that agree
\* with it on the key columns, or is added when there is none.
Upsert(table, row, key) ==
    {r \in table : \E c \in key : r[c] # row[c]} \cup {row}

\* cache.py _normalize_handle
cache_normalize_handle(handle) == Lower(LStripAt(handle))

\* An expiry test that already drops an entry aged exactly 7 days.
_is_expired_AtLimit(updated_at) == now - updated_at >= CACHE_EXPIRATION_DAYS

\* _is_expired: the entry is older than CACHE_EXPIRATION_DAYS
_is_expired(updated_at) == now - updated_at > CACHE_EXPIRATION_DAYS

\* The age of the row stored for a cache key, NoTime when there is none.
RowAge(handle, platform) ==
    LET rows == {r \in cache : r.handle = handle /\ r.platform = platform}
    IN IF rows = {} THEN NoTime
       ELSE now - (CHOOSE r \in rows : \A q \in rows : q.updated_at <= r.updated_at).updated_at

\* _get_latest_record on influencer_cache with filters handle, platform:
\* the most recently updated matching row, <<>> when there is none or when
\* it is expired.
_get_latest_record(handle, platform) ==
    LET rows == {r \in cache : r.handle = handle /\ r.platform = platform}
    IN
    IF ~configured THEN <<>>
    ELSE IF rows = {} THEN <<>>
    ELSE LET record ==
                CHOOSE r \in rows : \A q \in rows : q.updated_at <= r.updated_at
         IN IF _is_expired(record.updated_at) THEN <<>> ELSE <<record>>

\* get_cached_influencer: the cached analysis_data or None
get_cached_influencer(handle, platform) ==
    LET record == _get_latest_record(cache_normalize_handle(handle), platform)
    IN IF record # <<>> THEN record[1].analysis_data ELSE None

\* A cache write that stores the handle as given, without normalizing it.
cache_influencer_RawHandle(handle, platform, analysis_data, ok) ==
    IF ~configured \/ ~ok THEN cache
    ELSE Upsert(cache,
                [handle |-> handle,
                 platform |-> platform,
                 analysis_data |-> analysis_data,
                 updated_at |-> now],
                {"handle", "platform"})

\* cache_influencer: the table afterwards; unchanged when the call fails
\* (the function then returns False).
cache_influencer(handle, platform, analysis_data, ok) ==
    IF ~configured \/ ~ok THEN cache
    ELSE Upsert(cache,
                [handle |-> cache_normalize_handle(handle),
                 platform |-> platform,
                 analysis_data |-> analysis_data,
                 updated_at |-> now],
                {"handle", "platform"})

\* A caller looks an influencer up in the cache.
cache_lookup(handle, platform) ==
    /\ hist.calls < MaxCacheOps
    /\ last' = [op |-> "get_cached_influencer", handle |-> handle,
                platform |-> platform,
                data |-> get_cached_influencer(handle, platform),
                at |-> now,
                row_age |-> RowAge(cache_normalize_handle(handle), platform)]
    /\ hist' = [hist EXCEPT !.calls = @ + 1]
    /\ UNCHANGED << configured, adminApiKey, dailyLimit, now, rlCount, rlLog,
                    subs, market, cache, votes, procs, feedback >>

\* A caller writes an assessment to the cache.
cache_store(handle, platform, analysis_data, ok) ==
    /\ hist.calls < MaxCacheOps
    /\ cache' = cache_influencer(handle, platform, analysis_data, ok)
    /\ last' = [op |-> "cache_influencer", handle |-> handle,
                platform |-> platform, returned |-> (configured /\ ok)]
    /\ hist' = [hist EXCEPT
                   !.calls = @ + 1,
                   !.lastPut = IF configured /\ ok
                               THEN << [handle |-> handle, platform |-> platform,
                                        data |-> analysis_data, at |-> now] >>
                               ELSE @]
    /\ UNCHANGED << configured, adminApiKey, dailyLimit, now, rlCount, rlLog,
                    subs, market, votes, procs, feedback >>

CacheHandles == { <<"a">>, <<"@", "A">>, <<"b">> }

NextCache ==
    \/ \E handle \in CacheHandles, platform \in Platforms :
          cache_lookup(handle, platform)
    \/ \E handle \in CacheHandles, platform \in Platforms, d \in Payloads,
          ok \in BOOLEAN :
          cache_store(handle, platform, d, ok)
    \/ NextDay(MaxNow)

InitCache ==
    /\ InitTables
    /\ adminApiKey = None
    /\ dailyLimit = 1
    /\ hist = InitHist

SpecCache == InitCache /\ [][NextCache]_vars

----------------------------------------------------------------------------
(* Admin authentication: backend/app/core/security.py *)

\* verify_admin_auth: 0 when the request is let through, else the status code
\* of the HTTPException.  A header is a sequence of tokens, <<>> when absent.
verify_admin_auth(authorization) ==
    IF adminApiKey = None THEN 501
    ELSE IF authorization = <<>> THEN 401
    ELSE IF Head(authorization) # "Bearer " THEN 401
    ELSE IF Strip(RemoveToken(authorization, "Bearer ")) # <<adminApiKey>> THEN 401
    ELSE 0

----------------------------------------------------------------------------
(* SubmissionWorkflow: backend/app/repositories/submissions.py and the     *)
(* submission endpoints of backend/api/routes.py                           *)

NoError == [msg |-> None, len |-> 0]
Min(a, b) == IF a <= b THEN a ELSE b

\* hash_ip_address: SHA-256 of the address (an injective tag).
hash_ip_address(ip) == <<"sha256", ip>>

Terminal(status) == status \in {"approved", "rejected"}

\* InfluencerSubmissionRequest.normalize_handle
normalize_handle(v) == LStripAt(Strip(v))

\* The store function check_submission_rate_limit(p_ip_hash): TRUE while the
\* submitter has created fewer than 3 submissions in the trailing 24 hours.
RpcCheckSubmissionRateLimit(ip_hash) ==
    Cardinality({i \in 1..Len(subs) :
                    /\ subs[i].submitter_ip_hash = ip_hash
                    /\ now - subs[i].created_at < 1}) < SUBMISSION_LIMIT

\* The store function check_duplicate_submission(p_handle, p_platform): TRUE
\* when no pending or analyzing submission exists for the same normalized
\* handle and platform.
RpcCheckDuplicateSubmission(handle, platform) ==
    ~ \E i \in 1..Len(subs) :
          /\ Lower(LStripAt(subs[i].handle)) = Lower(LStripAt(handle))
          /\ subs[i].platform = platform
          /\ ~Terminal(subs[i].status)

\* A submission limiter that lets every request through.
check_submission_rate_limit_AllowAll(ip_hash, ok) == TRUE

\* check_submission_rate_limit: allow when the store cannot answer
check_submission_rate_limit(ip_hash, ok) ==
    IF ~configured THEN TRUE
    ELSE IF ~ok THEN TRUE
    ELSE RpcCheckSubmissionRateLimit(ip_hash)

\* A duplicate check that lets every request through.
check_duplicate_submission_AllowAll(handle, platform, ok) == TRUE

\* check_duplicate_submission: allow when the store cannot answer
check_duplicate_submission(handle, platform, ok) ==
    IF ~configured THEN TRUE
    ELSE IF ~ok THEN TRUE
    ELSE RpcCheckDuplicateSubmission(handle, platform)

\* The row create_influencer_submission inserts.
NewSubmission(handle, platform, submitter_ip_hash) ==
    [handle |-> LStripAt(handle),
     platform |-> platform,
     submitter_ip_hash |-> submitter_ip_hash,
     status |-> "pending",
     analysis_data |-> None,
     trust_score |-> None,
     analysis_error |-> NoError,
     reviewed_by |-> None,
     reviewed_at |-> NoTime,
     admin_notes |-> None,
     rejection_reason |-> None,
     created_at |-> now]

\* get_submission_by_id: <<row>>, or <<>> (None) when there is no such row or
\* the store call fails.
get_submission_by_id(submission_id, ok) ==
    IF ~configured \/ ~ok THEN <<>>
    ELSE IF submission_id \in 1..Len(subs) THEN << subs[submission_id] >>
    ELSE <<>>

\* The row after update_submission_status(submission_id, status, analysis_data,
\* trust_score, analysis_error); None arguments leave their column alone.
StatusUpdated(row, status, analysis_data, trust_score, analysis_error) ==
    [row EXCEPT
        !.status = status,
        !.analysis_data = IF analysis_data # None THEN analysis_data ELSE @,
        !.trust_score = IF trust_score # None THEN trust_score ELSE @,
        !.analysis_error = IF analysis_error # NoError THEN analysis_error ELSE @]

\* update_submission_status: the table afterwards; unchanged when the store
\* call fails (the function then returns None).
update_submission_status(submission_id, status, analysis_data, trust_score, analysis_error, ok) ==
    IF ~configured \/ ~ok \/ submission_id \notin 1..Len(subs) THEN subs
    ELSE [subs EXCEPT ![submission_id] =
              StatusUpdated(@, status, analysis_data, trust_score, analysis_error)]

\* The row after review_submission(submission_id, status, reviewed_by,
\* admin_notes, rejection_reason).
Reviewed(row, status, reviewed_by, admin_notes, rejection_reason) ==
    [row EXCEPT
        !.status = status,
        !.reviewed_by = reviewed_by,
        !.reviewed_at = now,
        !.admin_notes = admin_notes,
        !.rejection_reason =
            IF rejection_reason \notin {None, Omitted, ""} THEN rejection_reason ELSE @]

\* review_submission: the table afterwards; unchanged when the call fails.
review_submission(submission_id, status, reviewed_by, admin_notes, rejection_reason, ok) ==
    IF ~configured \/ ~ok \/ submission_id \notin 1..Len(subs) THEN subs
    ELSE [subs EXCEPT ![submission_id] =
              Reviewed(@, status, reviewed_by, admin_notes, rejection_reason)]

----------------------------------------------------------------------------
(* POST /submissions/influencers (submit_influencer) *)

cfgVars == << configured, adminApiKey, dailyLimit >>

Respond(p, r) ==
    /\ last' = IF hist.trace THEN r ELSE last
    /\ procs' = [procs EXCEPT ![p] = IdleProc]

InFlight(op) == {q \in Procs : procs[q].op = op}

\* is_supabase_available, then check_submission_rate_limit.  The slot keeps
\* in `answered` whether the store answered the handler's latest check.
submit_influencer_start(p, handle, platform, host, ok) ==
    /\ procs[p].op = "idle"
    /\ Len(subs) + Cardinality(InFlight("submit")) < hist.cap
    /\ LET ip_hash == hash_ip_address(get_client_ip(host))
           req_handle == normalize_handle(handle)
       IN
       IF ~configured
       THEN /\ Respond(p, [op |-> "submit", code |-> 503])
            /\ hist' = hist
       ELSE /\ hist' = PolicyAfter("submission", ~ok,
                                   check_submission_rate_limit(ip_hash, ok))
            /\ IF ~check_submission_rate_limit(ip_hash, ok)
               THEN Respond(p, [op |-> "submit", code |-> 429])
               ELSE /\ procs' = [procs EXCEPT ![p] =
                            [op |-> "submit", pc |-> "dup", handle |-> req_handle,
                             platform |-> platform, ip_hash |-> ip_hash,
                             answered |-> ok]]
                    /\ last' = last
    /\ UNCHANGED << cfgVars, now, rlCount, rlLog, subs, market, cache, votes, feedback >>

\* check_duplicate_submission
submit_influencer_dup(p, ok) ==
    /\ procs[p].op = "submit" /\ procs[p].pc = "dup"
    /\ IF ~check_duplicate_submission(procs[p].handle, procs[p].platform, ok)
       THEN Respond(p, [op |-> "submit", code |-> 409])
       ELSE /\ procs' = [procs EXCEPT ![p].pc = "insert", ![p].answered = ok]
            /\ last' = last
    /\ UNCHANGED << cfgVars, now, rlCount, rlLog, subs, market, cache, votes,
                    hist, feedback >>

\* create_influencer_submission
submit_influencer_insert(p, ok) ==
    /\ procs[p].op = "submit" /\ procs[p].pc = "insert"
    /\ IF ok
       THEN /\ subs' = Append(subs, NewSubmission(procs[p].handle, procs[p].platform,
                                                  procs[p].ip_hash))
            /\ Respond(p, [op |-> "submit", code |-> 200, id |-> Len(subs) + 1,
                           status |-> "pending"])
       ELSE /\ subs' = subs
            /\ Respond(p, [op |-> "submit", code |-> 500])
    /\ UNCHANGED << cfgVars, now, rlCount, rlLog, market, cache, votes, hist, feedback >>

----------------------------------------------------------------------------
(* POST /admin/submissions/influencers/{id}/analyze (analyze_submission) *)

HTTP_ERROR_MSG == [msg |-> "Analysis failed - HTTP error", len |-> 28]

\* A status test that refuses only rejected submissions.
CanAnalyze_NotRejected(status) == status # "rejected"

\* The handler's status test before it starts an analysis.
CanAnalyze(status) == status \in {"pending", "analyzing"}

\* verify_admin_auth, check_rate_limit("admin"), get_submission_by_id and the
\* status test
analyze_submission_start(p, submission_id, authorization, host, ok_rl, ok_get) ==
    /\ procs[p].op = "idle"
    /\ LET auth == verify_admin_auth(authorization)
           r == check_rate_limit(host, "admin", ok_rl)
           submission == get_submission_by_id(submission_id, ok_get)
       IN
       IF auth # 0
       THEN /\ Respond(p, [op |-> "analyze", code |-> auth])
            /\ UNCHANGED << rlCount, rlLog, hist >>
       ELSE /\ rlCount' = RlCountAfter(host, "admin", r)
            /\ UNCHANGED << rlLog, hist >>
            /\ IF r.code # 0
               THEN Respond(p, [op |-> "analyze", code |-> r.code])
               ELSE IF ~configured
               THEN Respond(p, [op |-> "analyze", code |-> 503])
               ELSE IF submission = <<>>
               THEN Respond(p, [op |-> "analyze", code |-> 404])
               ELSE IF ~CanAnalyze(submission[1].status)
               THEN Respond(p, [op |-> "analyze", code |-> 400])
               ELSE /\ procs' = [procs EXCEPT ![p] =
                            [op |-> "analyze", pc |-> "mark", sid |-> submission_id,
                             handle |-> submission[1].handle, result |-> None,
                             err |-> NoError, code |-> 0]]
                    /\ last' = last
    /\ UNCHANGED << cfgVars, now, subs, market, cache, votes, feedback >>

\* update_submission_status(submission_id, "analyzing")
analyze_submission_mark(p, ok) ==
    /\ procs[p].op = "analyze" /\ procs[p].pc = "mark"
    /\ subs' = update_submission_status(procs[p].sid, "analyzing", None, None,
                                        NoError, ok)
    /\ procs' = [procs EXCEPT ![p].pc = "pipeline"]
    /\ UNCHANGED << cfgVars, now, rlCount, rlLog, market, cache, votes, last,
                    hist, feedback >>

\* await build_influencer_trust_response(submission["handle"], max_posts=5):
\* a valid cache entry is returned as it is; otherwise the assessment d is
\* computed from the collaborators and written to the cache.  Any of the
\* calls may raise.
analyze_submission_pipeline(p, outcome, d, put_ok, errlen) ==
    /\ procs[p].op = "analyze" /\ procs[p].pc = "pipeline"
    /\ LET handle == procs[p].handle
           cached_data == get_cached_influencer(handle, "instagram")
       IN
       CASE outcome = "ok" ->
              IF cached_data # None
              THEN /\ procs' = [procs EXCEPT ![p].pc = "store",
                                             ![p].result = cached_data]
                   /\ cache' = cache
              ELSE /\ procs' = [procs EXCEPT ![p].pc = "store", ![p].result = d]
                   /\ cache' = cache_influencer(handle, "instagram", d, put_ok)
         [] outcome = "http_error" ->
              /\ procs' = [procs EXCEPT ![p].pc = "record_error",
                                        ![p].err = HTTP_ERROR_MSG,
                                        ![p].code = 502]
              /\ cache' = cache
         [] outcome = "error" ->
              /\ procs' = [procs EXCEPT ![p].pc = "record_error",
                              ![p].err = [msg |-> "str(e)",
                                          len |-> Min(errlen, ERROR_TRUNCATE)],
                              ![p].code = 502]
              /\ cache' = cache
    /\ UNCHANGED << cfgVars, now, rlCount, rlLog, subs, market, votes, last,
                    hist, feedback >>

\* update_submission_status(submission_id, "pending", analysis_data,
\* trust_score); a failed update raises HTTPException(500), which the
\* handler's own except clause catches.
analyze_submission_store(p, ok) ==
    /\ procs[p].op = "analyze" /\ procs[p].pc = "store"
    /\ subs' = update_submission_status(procs[p].sid, "pending", procs[p].result,
                                        procs[p].result, NoError, ok)
    /\ IF configured /\ ok
       THEN Respond(p, [op |-> "analyze", code |-> 200, sid |-> procs[p].sid,
                        trust_score |-> procs[p].result])
       ELSE /\ procs' = [procs EXCEPT ![p].pc = "record_error",
                                      ![p].err = HTTP_ERROR_MSG,
                                      ![p].code = 500]
            /\ last' = last
    /\ UNCHANGED << cfgVars, now, rlCount, rlLog, market, cache, votes, hist, feedback >>

\* The except clauses: update_submission_status(submission_id, "pending",
\* analysis_error=...), result ignored, then the error is raised.
analyze_submission_record_error(p, ok) ==
    /\ procs[p].op = "analyze" /\ procs[p].pc = "record_error"
    /\ subs' = update_submission_status(procs[p].sid, "pending", None, None,
                                        procs[p].err, ok)
    /\ Respond(p, [op |-> "analyze", code |-> procs[p].code, sid |-> procs[p].sid])
    /\ UNCHANGED << cfgVars, now, rlCount, rlLog, market, cache, votes, hist, feedback >>

----------------------------------------------------------------------------
(* POST /admin/submissions/influencers/{id}/review                         *)
(* (review_influencer_submission)                                          *)

\* ReviewSubmissionRequest.validate_rejection_reason: runs on a
\* rejection_reason the request carries (not on the default of an omitted
\* field) and refuses an empty one when status is "rejected".
validate_rejection_reason(req) ==
    ~ (req.rejection_reason # Omitted
       /\ req.status = "rejected"
       /\ req.rejection_reason \in {None, ""})

\* A status test that refuses only approved submissions.
AlreadyReviewed_OnlyApproved(status) == status = "approved"

\* The handler's status test before it writes a review.
AlreadyReviewed(status) == status \in {"approved", "rejected"}

\* The user trust score of an entity with t trust and d distrust votes is
\* kept as the pair <<t, d>>; the score of no votes, 0.50, is <<0, 0>>.
HalfScore == <<0, 0>>

\* marketplace.py _normalize_handle
marketplace_normalize_handle(handle) == Lower(LStripAt(handle))

\* add_influencer_to_marketplace: upsert on (handle, platform) of the
\* columns the function sets; the vote columns of an existing row stay.
add_influencer_to_marketplace(handle, platform, trust_data, admin_notes, ok) ==
    LET h == marketplace_normalize_handle(handle)
        old == {r \in market : r.handle = h /\ r.platform = platform}
        row == [handle |-> h, platform |-> platform, trust |-> trust_data,
                admin_notes |-> admin_notes,
                total_votes |-> IF old = {} THEN 0
                                ELSE (CHOOSE r \in old : TRUE).total_votes,
                user_trust_score |-> IF old = {} THEN HalfScore
                                     ELSE (CHOOSE r \in old : TRUE).user_trust_score]
    IN IF ~configured \/ ~ok THEN market
       ELSE Upsert(market, row, {"handle", "platform"})

review_submission_start(p, submission_id, req, authorization, host, ok_rl, ok_get) ==
    /\ procs[p].op = "idle"
    /\ LET auth == verify_admin_auth(authorization)
           r == check_rate_limit(host, "admin", ok_rl)
           submission == get_submission_by_id(submission_id, ok_get)
       IN
       IF ~validate_rejection_reason(req)
       THEN /\ Respond(p, [op |-> "review", code |-> 422, sid |-> submission_id])
            /\ UNCHANGED << rlCount, rlLog, hist >>
       ELSE IF auth # 0
       THEN /\ Respond(p, [op |-> "review", code |-> auth, sid |-> submission_id])
            /\ UNCHANGED << rlCount, rlLog, hist >>
       ELSE /\ rlCount' = RlCountAfter(host, "admin", r)
            /\ UNCHANGED << rlLog, hist >>
            /\ IF r.code # 0
               THEN Respond(p, [op |-> "review", code |-> r.code, sid |-> submission_id])
               ELSE IF ~configured
               THEN Respond(p, [op |-> "review", code |-> 503, sid |-> submission_id])
               ELSE IF submission = <<>>
               THEN Respond(p, [op |-> "review", code |-> 404, sid |-> submission_id])
               ELSE IF AlreadyReviewed(submission[1].status)
               THEN Respond(p, [op |-> "review", code |-> 400, sid |-> submission_id])
               ELSE /\ procs' = [procs EXCEPT ![p] =
                            [op |-> "review", pc |-> "write", sid |-> submission_id,
                             handle |-> submission[1].handle,
                             platform |-> submission[1].platform,
                             analysis_data |-> submission[1].analysis_data,
                             req |-> req]]
                    /\ last' = last
    /\ UNCHANGED << cfgVars, now, subs, market, cache, votes, feedback >>

\* A write step that goes on to publish without testing analysis_data.
review_submission_write_NoAnalysisTest(p, ok) ==
    /\ procs[p].op = "review" /\ procs[p].pc = "write"
    /\ LET req == procs[p].req
           sid == procs[p].sid
       IN
       /\ subs' = review_submission(sid, req.status, "admin", req.admin_notes,
                                    req.rejection_reason, ok)
       /\ IF ~(configured /\ ok)
          THEN Respond(p, [op |-> "review", code |-> 500, sid |-> sid])
          ELSE IF req.status = "approved" /\ req.add_to_marketplace
          THEN /\ procs' = [procs EXCEPT ![p].pc = "publish"]
               /\ last' = last
          ELSE Respond(p, [op |-> "review", code |-> 200, sid |-> sid,
                           status |-> req.status, marketplace_id |-> <<>>,
                           add_to_marketplace |-> req.add_to_marketplace])
    /\ UNCHANGED << cfgVars, now, rlCount, rlLog, market, cache, votes, hist, feedback >>

\* review_submission(...), then the add_to_marketplace test on the row the
\* handler read at its start (of which the slot keeps the columns used)
review_submission_write(p, ok) ==
    /\ procs[p].op = "review" /\ procs[p].pc = "write"
    /\ LET req == procs[p].req
           sid == procs[p].sid
       IN
       /\ subs' = review_submission(sid, req.status, "admin", req.admin_notes,
                                    req.rejection_reason, ok)
       /\ IF ~(configured /\ ok)
          THEN Respond(p, [op |-> "review", code |-> 500, sid |-> sid])
          ELSE IF req.status = "approved" /\ req.add_to_marketplace
          THEN IF procs[p].analysis_data = None
               THEN Respond(p, [op |-> "review", code |-> 400, sid |-> sid])
               ELSE /\ procs' = [procs EXCEPT ![p].pc = "publish"]
                    /\ last' = last
          ELSE Respond(p, [op |-> "review", code |-> 200, sid |-> sid,
                           status |-> req.status, marketplace_id |-> <<>>,
                           add_to_marketplace |-> req.add_to_marketplace])
    /\ UNCHANGED << cfgVars, now, rlCount, rlLog, market, cache, votes, hist, feedback >>

\* A publish step that answers 500 when the marketplace write fails.
review_submission_publish_FailsReview(p, ok) ==
    /\ procs[p].op = "review" /\ procs[p].pc = "publish"
    /\ market' = add_influencer_to_marketplace(procs[p].handle, procs[p].platform,
                                               procs[p].analysis_data,
                                               procs[p].req.admin_notes, ok)
    /\ IF configured /\ ok
       THEN Respond(p, [op |-> "review", code |-> 200, sid |-> procs[p].sid,
                        status |-> procs[p].req.status,
                        marketplace_id |->
                            << marketplace_normalize_handle(procs[p].handle),
                               procs[p].platform >>,
                        add_to_marketplace |-> TRUE])
       ELSE Respond(p, [op |-> "review", code |-> 500, sid |-> procs[p].sid])
    /\ UNCHANGED << cfgVars, now, rlCount, rlLog, subs, cache, votes, hist, feedback >>

\* add_influencer_to_marketplace(...) from the analysis_data read at the
\* start; a failure is logged and the review still answers 200.
review_submission_publish(p, ok) ==
    /\ procs[p].op = "review" /\ procs[p].pc = "publish"
    /\ LET snap == procs[p]
           req == procs[p].req
       IN
       /\ market' = add_influencer_to_marketplace(snap.handle, snap.platform,
                                                  snap.analysis_data,
                                                  req.admin_notes, ok)
       /\ Respond(p, [op |-> "review", code |-> 200, sid |-> procs[p].sid,
                      status |-> req.status,
                      marketplace_id |->
                         IF configured /\ ok
                         THEN << marketplace_normalize_handle(snap.handle),
                                 snap.platform >>
                         ELSE <<>>,
                      add_to_marketplace |-> req.add_to_marketplace])
    /\ UNCHANGED << cfgVars, now, rlCount, rlLog, subs, cache, votes, hist, feedback >>

ReviewRequests ==
    [status : Decisions, admin_notes : {None}, rejection_reason : Reasons \ {None},
     add_to_marketplace : BOOLEAN]

SubAuthHeaders == { <<"Bearer ", "k1">>, <<"Bearer ", "k2">> }

NextSub ==
    \/ \E p \in Procs, handle \in SubHandles, platform \in SubPlatforms,
          host \in AdminHosts :
          submit_influencer_start(p, handle, platform, host, TRUE)
    \/ \E p \in Procs, ok \in BOOLEAN : submit_influencer_dup(p, ok)
    \/ \E p \in Procs, ok \in BOOLEAN : submit_influencer_insert(p, ok)
    \/ \E p \in Procs, sid \in 1..MaxSubs, authorization \in SubAuthHeaders,
          host \in AdminHosts, ok_rl \in BOOLEAN, ok_get \in BOOLEAN :
          analyze_submission_start(p, sid, authorization, host, ok_rl, ok_get)
    \/ \E p \in Procs, ok \in BOOLEAN : analyze_submission_mark(p, ok)
    \/ \E p \in Procs, outcome \in {"ok", "http_error", "error"}, d \in {"t1"},
          put_ok \in BOOLEAN, errlen \in {600} :
          analyze_submission_pipeline(p, outcome, d, put_ok, errlen)
    \/ \E p \in Procs, ok \in BOOLEAN : analyze_submission_store(p, ok)
    \/ \E p \in Procs, ok \in BOOLEAN : analyze_submission_record_error(p, ok)
    \/ \E p \in Procs, sid \in 1..MaxSubs, req \in ReviewRequests,
          authorization \in SubAuthHeaders, host \in AdminHosts,
          ok_rl \in BOOLEAN, ok_get \in BOOLEAN :
          review_submission_start(p, sid, req, authorization, host, ok_rl, ok_get)
    \/ \E p \in Procs, ok \in BOOLEAN : review_submission_write(p, ok)
    \/ \E p \in Procs, ok \in BOOLEAN : review_submission_publish(p, ok)

\* The workflow is explored with the largest admin quota and without
\* keeping the responses.
InitSub ==
    /\ InitTables
    /\ dailyLimit = MaxLimit
    /\ hist = [InitHist EXCEPT !.trace = FALSE]

SpecSub == InitSub /\ [][NextSub]_vars

----------------------------------------------------------------------------
(* The other endpoints behind verify_admin_auth: backend/api/routes.py     *)

\* GET /admin/newsletter/subscribers.  The subscribers table is read only
\* here and is not part of the state.
get_subscribers(p, authorization, host, ok_rl) ==
    /\ procs[p].op = "idle"
    /\ LET auth == verify_admin_auth(authorization)
           r == check_rate_limit(host, "admin", ok_rl)
       IN
       IF auth # 0
       THEN /\ Respond(p, [op |-> "get_subscribers", code |-> auth])
            /\ UNCHANGED rlCount
       ELSE /\ rlCount' = RlCountAfter(host, "admin", r)
            /\ Respond(p, [op |-> "get_subscribers",
                           code |-> IF r.code # 0 THEN r.code
                                    ELSE IF ~configured THEN 503 ELSE 200])
    /\ UNCHANGED << cfgVars, now, rlLog, subs, market, cache, votes, hist,
                    feedback >>

\* GET /admin/submissions/influencers: list_submissions answers an empty
\* page when the store fails.
list_influencer_submissions(p, authorization, host, ok_rl, ok) ==
    /\ procs[p].op = "idle"
    /\ LET auth == verify_admin_auth(authorization)
           r == check_rate_limit(host, "admin", ok_rl)
       IN
       IF auth # 0
       THEN /\ Respond(p, [op |-> "list_submissions", code |-> auth])
            /\ UNCHANGED rlCount
       ELSE /\ rlCount' = RlCountAfter(host, "admin", r)
            /\ IF r.code # 0
               THEN Respond(p, [op |-> "list_submissions", code |-> r.code])
               ELSE IF ~configured
               THEN Respond(p, [op |-> "list_submissions", code |-> 503])
               ELSE Respond(p, [op |-> "list_submissions", code |-> 200,
                                total |-> IF ok THEN Len(subs) ELSE 0])
    /\ UNCHANGED << cfgVars, now, rlLog, subs, market, cache, votes, hist,
                    feedback >>

\* GET /admin/submissions/influencers/{submission_id}
get_submission_detail(p, submission_id, authorization, host, ok_rl, ok_get) ==
    /\ procs[p].op = "idle"
    /\ LET auth == verify_admin_auth(authorization)
           r == check_rate_limit(host, "admin", ok_rl)
           submission == get_submission_by_id(submission_id, ok_get)
       IN
       IF auth # 0
       THEN /\ Respond(p, [op |-> "get_submission", code |-> auth])
            /\ UNCHANGED rlCount
       ELSE /\ rlCount' = RlCountAfter(host, "admin", r)
            /\ IF r.code # 0
               THEN Respond(p, [op |-> "get_submission", code |-> r.code])
               ELSE IF ~configured
               THEN Respond(p, [op |-> "get_submission", code |-> 503])
               ELSE IF submission = <<>>
               THEN Respond(p, [op |-> "get_submission", code |-> 404])
               ELSE Respond(p, [op |-> "get_submission", code |-> 200,
                                status |-> submission[1].status])
    /\ UNCHANGED << cfgVars, now, rlLog, subs, market, cache, votes, hist,
                    feedback >>

\* marketplace.py remove_from_marketplace: delete by (handle, platform)
remove_from_marketplace(handle, platform, ok) ==
    IF ~configured \/ ~ok THEN market
    ELSE {r \in market : ~(/\ r.handle = marketplace_normalize_handle(handle)
                           /\ r.platform = platform)}

\* DELETE /marketplace/influencers/{handle}: the gate
remove_influencer_from_marketplace_start(p, handle, platform, authorization, host, ok_rl) ==
    /\ procs[p].op = "idle"
    /\ LET auth == verify_admin_auth(authorization)
           r == check_rate_limit(host, "admin", ok_rl)
       IN
       IF auth # 0
       THEN /\ Respond(p, [op |-> "remove_market", code |-> auth])
            /\ UNCHANGED rlCount
       ELSE /\ rlCount' = RlCountAfter(host, "admin", r)
            /\ IF r.code # 0
               THEN Respond(p, [op |-> "remove_market", code |-> r.code])
               ELSE IF ~configured
               THEN Respond(p, [op |-> "remove_market", code |-> 503])
               ELSE /\ procs' = [procs EXCEPT ![p] =
                            [op |-> "remove_market", pc |-> "delete",
                             handle |-> handle, platform |-> platform]]
                    /\ last' = last
    /\ UNCHANGED << cfgVars, now, rlLog, subs, market, cache, votes, hist,
                    feedback >>

\* remove_from_marketplace(handle, platform); 500 when it reports failure
remove_influencer_from_marketplace_delete(p, ok) ==
    /\ procs[p].op = "remove_market" /\ procs[p].pc = "delete"
    /\ market' = remove_from_marketplace(procs[p].handle, procs[p].platform, ok)
    /\ Respond(p, [op |-> "remove_market", code |-> IF ok THEN 200 ELSE 500])
    /\ UNCHANGED << cfgVars, now, rlCount, rlLog, subs, cache, votes, hist,
                    feedback >>

\* POST /marketplace/influencers: the gate and req.handle.strip()
add_to_marketplace_start(p, handle, authorization, host, ok_rl) ==
    /\ procs[p].op = "idle"
    /\ LET auth == verify_admin_auth(authorization)
           r == check_rate_limit(host, "admin", ok_rl)
       IN
       IF auth # 0
       THEN /\ Respond(p, [op |-> "add_market", code |-> auth])
            /\ UNCHANGED rlCount
       ELSE /\ rlCount' = RlCountAfter(host, "admin", r)
            /\ IF r.code # 0
               THEN Respond(p, [op |-> "add_market", code |-> r.code])
               ELSE IF ~configured
               THEN Respond(p, [op |-> "add_market", code |-> 503])
               ELSE IF Strip(handle) = <<>>
               THEN Respond(p, [op |-> "add_market", code |-> 400])
               ELSE /\ procs' = [procs EXCEPT ![p] =
                            [op |-> "add_market", pc |-> "pipeline",
                             handle |-> Strip(handle), result |-> None]]
                    /\ last' = last
    /\ UNCHANGED << cfgVars, now, rlLog, subs, market, cache, votes, hist,
                    feedback >>

\* await build_influencer_trust_response(handle, max_posts=5); an
\* HTTPException is re-raised, any other exception becomes 502.
add_to_marketplace_pipeline(p, outcome, d, put_ok) ==
    /\ procs[p].op = "add_market" /\ procs[p].pc = "pipeline"
    /\ LET handle == procs[p].handle
           cached_data == get_cached_influencer(handle, "instagram")
       IN
       IF outcome = "ok"
       THEN /\ procs' = [procs EXCEPT ![p].pc = "add",
                            ![p].result = IF cached_data # None
                                          THEN cached_data ELSE d]
            /\ cache' = IF cached_data # None THEN cache
                        ELSE cache_influencer(handle, "instagram", d, put_ok)
            /\ last' = last
       ELSE /\ Respond(p, [op |-> "add_market", code |-> 502])
            /\ cache' = cache
    /\ UNCHANGED << cfgVars, now, rlCount, rlLog, subs, market, votes, hist,
                    feedback >>

\* add_influencer_to_marketplace(...); 500 when it returns no record
add_to_marketplace_add(p, ok) ==
    /\ procs[p].op = "add_market" /\ procs[p].pc = "add"
    /\ market' = add_influencer_to_marketplace(procs[p].handle, "instagram",
                                               procs[p].result, None, ok)
    /\ Respond(p, [op |-> "add_market", code |-> IF ok THEN 200 ELSE 500])
    /\ UNCHANGED << cfgVars, now, rlCount, rlLog, subs, cache, votes, hist,
                    feedback >>

----------------------------------------------------------------------------
(* The privileged endpoints under requests that do not present the secret  *)

PrivilegedOps ==
    {"analyze", "review", "get_subscribers", "list_submissions",
     "get_submission", "add_market", "remove_market"}

\* Authorization headers as token sequences; None is a missing credential.
AuthCandidates ==
    { <<>>, <<"k1">>, <<"Bearer ", "k1">>, <<"Bearer ", "k2">>,
      <<"Bearer ", "Bearer ", "k1">> }

\* The credential of a header: what follows the scheme "Bearer "; a header
\* that is absent or does not start with the scheme has none.
BearerCredential(authorization) ==
    IF authorization # <<>> /\ Head(authorization) = "Bearer "
    THEN Tail(authorization) ELSE None

\* The header presents the secret: its credential, surrounding whitespace
\* aside, is the configured key.
PresentsSecret(authorization, key) ==
    /\ key # None
    /\ BearerCredential(authorization) # None
    /\ Strip(BearerCredential(authorization)) = << key >>

WrongHeaders(key) == {a \in AuthCandidates : ~PresentsSecret(a, key)}

NextAuth ==
    \/ \E p \in Procs, handle \in SubHandles, platform \in SubPlatforms,
          host \in AdminHosts :
          submit_influencer_start(p, handle, platform, host, TRUE)
    \/ \E p \in Procs : submit_influencer_dup(p, TRUE)
    \/ \E p \in Procs : submit_influencer_insert(p, TRUE)
    \/ \E p \in Procs, a \in WrongHeaders(adminApiKey), host \in AdminHosts :
          get_subscribers(p, a, host, TRUE)
    \/ \E p \in Procs, a \in WrongHeaders(adminApiKey), host \in AdminHosts,
          ok \in BOOLEAN :
          list_influencer_submissions(p, a, host, TRUE, ok)
    \/ \E p \in Procs, sid \in 1..MaxSubs, a \in WrongHeaders(adminApiKey),
          host \in AdminHosts, ok_get \in BOOLEAN :
          get_submission_detail(p, sid, a, host, TRUE, ok_get)
    \/ \E p \in Procs, handle \in SubHandles, a \in WrongHeaders(adminApiKey),
          host \in AdminHosts :
          add_to_marketplace_start(p, handle, a, host, TRUE)
    \/ \E p \in Procs, outcome \in {"ok", "error"}, d \in {"t1"},
          put_ok \in BOOLEAN :
          add_to_marketplace_pipeline(p, outcome, d, put_ok)
    \/ \E p \in Procs, ok \in BOOLEAN : add_to_marketplace_add(p, ok)
    \/ \E p \in Procs, handle \in SubHandles, platform \in SubPlatforms,
          a \in WrongHeaders(adminApiKey), host \in AdminHosts :
          remove_influencer_from_marketplace_start(p, handle, platform, a,
                                                   host, TRUE)
    \/ \E p \in Procs, ok \in BOOLEAN :
          remove_influencer_from_marketplace_delete(p, ok)
    \/ \E p \in Procs, sid \in 1..MaxSubs, a \in WrongHeaders(adminApiKey),
          host \in AdminHosts, ok_get \in BOOLEAN :
          analyze_submission_start(p, sid, a, host, TRUE, ok_get)
    \/ \E p \in Procs, ok \in BOOLEAN : analyze_submission_mark(p, ok)
    \/ \E p \in Procs, outcome \in {"ok", "error"}, d \in {"t1"},
          put_ok \in BOOLEAN, errlen \in {600} :
          analyze_submission_pipeline(p, outcome, d, put_ok, errlen)
    \/ \E p \in Procs, ok \in BOOLEAN : analyze_submission_store(p, ok)
    \/ \E p \in Procs, ok \in BOOLEAN : analyze_submission_record_error(p, ok)
    \/ \E p \in Procs, sid \in 1..MaxSubs,
          req \in {r \in ReviewRequests : r.add_to_marketplace},
          a \in WrongHeaders(adminApiKey), host \in AdminHosts,
          ok_get \in BOOLEAN :
          review_submission_start(p, sid, req, a, host, TRUE, ok_get)
    \/ \E p \in Procs, ok \in BOOLEAN : review_submission_write(p, ok)
    \/ \E p \in Procs, ok \in BOOLEAN : review_submission_publish(p, ok)

InitAuth ==
    /\ InitTables
    /\ configured
    /\ dailyLimit = MaxLimit
    /\ hist = InitHist

SpecAuth == InitAuth /\ [][NextAuth]_vars

----------------------------------------------------------------------------
(* The workflow of one submission with the responses kept: an admin with   *)
(* the right key whose quota the store counts                              *)

AdminHeader == << "Bearer ", "k1" >>

NextReview ==
    \/ \E p \in Procs, handle \in SubHandles, platform \in SubPlatforms,
          host \in AdminHosts :
          submit_influencer_start(p, handle, platform, host, TRUE)
    \/ \E p \in Procs : submit_influencer_dup(p, TRUE)
    \/ \E p \in Procs : submit_influencer_insert(p, TRUE)
    \/ \E p \in Procs, sid \in 1..MaxSubs, host \in AdminHosts,
          ok_get \in BOOLEAN :
          analyze_submission_start(p, sid, AdminHeader, host, TRUE, ok_get)
    \/ \E p \in Procs, ok \in BOOLEAN : analyze_submission_mark(p, ok)
    \/ \E p \in Procs, outcome \in {"ok", "http_error", "error"}, d \in {"t1"},
          put_ok \in BOOLEAN, errlen \in ErrLens :
          analyze_submission_pipeline(p, outcome, d, put_ok, errlen)
    \/ \E p \in Procs, ok \in BOOLEAN : analyze_submission_store(p, ok)
    \/ \E p \in Procs, ok \in BOOLEAN : analyze_submission_record_error(p, ok)
    \/ \E p \in Procs, sid \in 1..MaxSubs, req \in ReviewRequests,
          host \in AdminHosts, ok_get \in BOOLEAN :
          review_submission_start(p, sid, req, AdminHeader, host, TRUE, ok_get)
    \/ \E p \in Procs, ok \in BOOLEAN : review_submission_write(p, ok)
    \/ \E p \in Procs, ok \in BOOLEAN : review_submission_publish(p, ok)

InitReview ==
    /\ InitTables
    /\ configured
    /\ adminApiKey = "k1"
    /\ dailyLimit = MaxLimit
    /\ hist = InitHist

SpecReview == InitReview /\ [][NextReview]_vars

----------------------------------------------------------------------------
(* Creation of submissions on its own *)

CreateHandles == { <<"a">>, <<"@", "A">>, <<"b">>, <<"c">> }
CreateHosts == { "ip1", "ip2" }

\* A submission of c that was reviewed before.
ReviewedSubmission ==
    [NewSubmission(<<"c">>, "instagram", hash_ip_address("ip2")) EXCEPT
        !.status = "approved", !.reviewed_by = "admin", !.reviewed_at = 0]

NextCreate ==
    \/ \E p \in Procs, handle \in CreateHandles, platform \in SubPlatforms,
          host \in CreateHosts, ok \in BOOLEAN :
          submit_influencer_start(p, handle, platform, host, ok)
    \/ \E p \in Procs, ok \in BOOLEAN : submit_influencer_dup(p, ok)
    \/ \E p \in Procs, ok \in BOOLEAN : submit_influencer_insert(p, ok)
    \/ NextDay(MaxDay)

InitCreate ==
    /\ configured \in BOOLEAN
    /\ adminApiKey = None
    /\ dailyLimit = 1
    /\ now = 0
    /\ rlCount = << >>
    /\ rlLog = << >>
    /\ subs \in { <<>>, << ReviewedSubmission >> }
    /\ market = {}
    /\ cache = {}
    /\ votes = {}
    /\ feedback = <<>>
    /\ procs = [p \in Procs |-> IdleProc]
    /\ last = NoResp
    /\ hist = [InitHist EXCEPT !.cap = MaxCreate]

SpecCreate == InitCreate /\ [][NextCreate]_vars

\* Concurrent creations with a store that answers every call.
NextRace ==
    \/ \E p \in Procs, handle \in CreateHandles, platform \in SubPlatforms,
          host \in CreateHosts :
          submit_influencer_start(p, handle, platform, host, TRUE)
    \/ \E p \in Procs : submit_influencer_dup(p, TRUE)
    \/ \E p \in Procs : submit_influencer_insert(p, TRUE)
    \/ NextDay(MaxDay)

SpecRace == InitCreate /\ [][NextRace]_vars

----------------------------------------------------------------------------
(* VotingLedger: backend/app/repositories/votes.py and the vote endpoints  *)
(* of backend/api/routes.py                                                *)

VoteTypes == { "trust", "distrust" }
Comments == { None, "c" }

\* The store function check_vote_rate_limit(p_ip_hash): TRUE while the voter
\* has made fewer than 20 vote calls in the current hour.
RpcCheckVoteRateLimit(ip_hash) ==
    (IF ip_hash \in DOMAIN hist.voteCalls THEN hist.voteCalls[ip_hash] ELSE 0)
        < VOTE_LIMIT

\* A limiter that lets every vote call through.
check_vote_rate_limit_AllowAll(ip_hash, ok) == TRUE

\* check_vote_rate_limit: allow when the store cannot answer
check_vote_rate_limit(ip_hash, ok) ==
    IF ~configured THEN TRUE
    ELSE IF ~ok THEN TRUE
    ELSE RpcCheckVoteRateLimit(ip_hash)

\* The rows of an entity as the vote functions select them.
VotesOf(handle, platform) ==
    {v \in votes : v.influencer_handle = LStripAt(handle)
                   /\ v.influencer_platform = platform}

\* An insert in place of the upsert: an earlier row of the voter stays.
submit_vote_Insert(handle, platform, vote_type, voter_ip_hash, comment, ok) ==
    IF ~configured \/ ~ok THEN votes
    ELSE votes \cup {[influencer_handle |-> LStripAt(handle),
                      influencer_platform |-> platform,
                      vote_type |-> vote_type,
                      voter_ip_hash |-> voter_ip_hash,
                      comment |-> comment]}

\* An upsert that leaves an existing row of the voter as it is.
submit_vote_KeepFirst(handle, platform, vote_type, voter_ip_hash, comment, ok) ==
    IF \E v \in VotesOf(handle, platform) : v.voter_ip_hash = voter_ip_hash
    THEN votes
    ELSE submit_vote_Insert(handle, platform, vote_type, voter_ip_hash, comment, ok)

\* submit_vote: the table after the upsert on (influencer_handle,
\* influencer_platform, voter_ip_hash); unchanged when the call fails.
submit_vote(handle, platform, vote_type, voter_ip_hash, comment, ok) ==
    IF ~configured \/ ~ok THEN votes
    ELSE Upsert(votes,
                [influencer_handle |-> LStripAt(handle),
                 influencer_platform |-> platform,
                 vote_type |-> vote_type,
                 voter_ip_hash |-> voter_ip_hash,
                 comment |-> comment],
                {"influencer_handle", "influencer_platform", "voter_ip_hash"})

\* The store function calculate_user_trust_score(p_handle, p_platform): a
\* function of the entity's vote counts, 0.50 when it has no votes.
RpcCalculateUserTrustScore(handle, platform) ==
    << Cardinality({v \in VotesOf(handle, platform) : v.vote_type = "trust"}),
       Cardinality({v \in VotesOf(handle, platform) : v.vote_type = "distrust"}) >>

ZeroStats ==
    [trust_votes |-> 0, distrust_votes |-> 0, total_votes |-> 0,
     user_trust_score |-> HalfScore]

\* Statistics counted over the votes of every entity of the platform.
get_vote_stats_AnyHandle(handle, platform, ok) ==
    LET data == {v \in votes : v.influencer_platform = platform}
    IN
    IF ~configured \/ ~ok \/ data = {} THEN ZeroStats
    ELSE [trust_votes |-> Cardinality({v \in data : v.vote_type = "trust"}),
          distrust_votes |-> Cardinality({v \in data : v.vote_type = "distrust"}),
          total_votes |-> Cardinality(data),
          user_trust_score |-> RpcCalculateUserTrustScore(handle, platform)]

\* Statistics whose score for an entity without rows is that of a lone
\* distrust vote.
get_vote_stats_NoEmptyDefault(handle, platform, ok) ==
    LET data == VotesOf(handle, platform)
    IN
    IF ~configured \/ ~ok THEN ZeroStats
    ELSE [trust_votes |-> Cardinality({v \in data : v.vote_type = "trust"}),
          distrust_votes |-> Cardinality({v \in data : v.vote_type = "distrust"}),
          total_votes |-> Cardinality(data),
          user_trust_score |-> IF data = {} THEN <<0, 1>>
                               ELSE RpcCalculateUserTrustScore(handle, platform)]

\* get_vote_stats: the counts of the selected rows, or the zero default when
\* there is no client, no row, or the store call raises.
get_vote_stats(handle, platform, ok) ==
    LET data == VotesOf(handle, platform)
    IN
    IF ~configured THEN ZeroStats
    ELSE IF ~ok THEN ZeroStats
    ELSE IF data = {} THEN ZeroStats
    ELSE [trust_votes |-> Cardinality({v \in data : v.vote_type = "trust"}),
          distrust_votes |-> Cardinality({v \in data : v.vote_type = "distrust"}),
          total_votes |-> Cardinality(data),
          user_trust_score |-> RpcCalculateUserTrustScore(handle, platform)]

\* get_user_vote: the voter's vote type on the entity or None
get_user_vote(handle, platform, ip_hash, ok) ==
    LET mine == {v \in VotesOf(handle, platform) : v.voter_ip_hash = ip_hash}
    IN IF ~configured \/ ~ok \/ mine = {} THEN None
       ELSE (CHOOSE v \in mine : TRUE).vote_type

\* update_marketplace_user_score: the marketplace table after the update of
\* the rows with handle = handle.lstrip("@") and the platform.
update_marketplace_user_score(handle, platform, ok_stats, ok) ==
    LET stats == get_vote_stats(handle, platform, ok_stats)
    IN
    IF ~configured \/ ~ok THEN market
    ELSE {IF r.handle = LStripAt(handle) /\ r.platform = platform
          THEN [r EXCEPT !.user_trust_score = stats.user_trust_score,
                         !.total_votes = stats.total_votes]
          ELSE r : r \in market}

\* delete_vote: the table afterwards; unchanged when the call fails
delete_vote(handle, platform, ip_hash, ok) ==
    IF ~configured \/ ~ok THEN votes
    ELSE {v \in votes : ~ (/\ v.influencer_handle = LStripAt(handle)
                           /\ v.influencer_platform = platform
                           /\ v.voter_ip_hash = ip_hash)}

\* delete_vote's return value: result.data is not None, which the store's
\* answer always satisfies, whether or not a row was deleted.
delete_vote_returns(handle, platform, ip_hash, ok) == configured /\ ok

VoteKey(handle, platform, ip_hash) == << LStripAt(handle), platform, ip_hash >>

\* The latest write the store performed for a vote key.
LastWriteAfterVote(k, vote_type, comment) ==
    LET old == IF k \in DOMAIN hist.lastWrite THEN hist.lastWrite[k]
               ELSE [present |-> FALSE, vote_type |-> None, comment |-> None,
                     n |-> 0, prev |-> None]
    IN Put(hist.lastWrite, k,
           [present |-> TRUE, vote_type |-> vote_type, comment |-> comment,
            n |-> old.n + 1,
            prev |-> IF old.present THEN old.vote_type ELSE None])

LastWriteAfterDelete(k) ==
    IF k \in DOMAIN hist.lastWrite
    THEN Put(hist.lastWrite, k,
             [hist.lastWrite[k] EXCEPT !.present = FALSE, !.prev = None])
    ELSE hist.lastWrite

\* vote_on_influencer: is_supabase_available, then check_vote_rate_limit
vote_on_influencer_start(p, req, host, ok) ==
    /\ procs[p].op = "idle"
    /\ hist.calls < MaxVoteOps
    /\ LET ip_hash == hash_ip_address(get_client_ip(host))
       IN
       IF ~configured
       THEN /\ Respond(p, [op |-> "vote", code |-> 503])
            /\ hist' = [hist EXCEPT !.calls = @ + 1]
       ELSE /\ hist' = [PolicyAfter("vote", ~ok, check_vote_rate_limit(ip_hash, ok))
                        EXCEPT
                   !.calls = @ + 1,
                   !.voteCalls =
                       IF ok /\ RpcCheckVoteRateLimit(ip_hash)
                       THEN Put(@, ip_hash,
                                (IF ip_hash \in DOMAIN @ THEN @[ip_hash] ELSE 0) + 1)
                       ELSE @]
            /\ IF ~check_vote_rate_limit(ip_hash, ok)
               THEN Respond(p, [op |-> "vote", code |-> 429])
               ELSE /\ procs' = [procs EXCEPT ![p] =
                            [op |-> "vote", pc |-> "upsert", req |-> req,
                             ip_hash |-> ip_hash]]
                    /\ last' = last
    /\ UNCHANGED << cfgVars, now, rlCount, rlLog, subs, market, cache, votes, feedback >>

\* submit_vote, 500 when it returns None
vote_on_influencer_upsert(p, ok) ==
    /\ procs[p].op = "vote" /\ procs[p].pc = "upsert"
    /\ LET req == procs[p].req
       IN
       /\ votes' = submit_vote(req.handle, req.platform, req.vote_type,
                              procs[p].ip_hash, req.comment, ok)
       /\ IF ~ok
          THEN /\ Respond(p, [op |-> "vote", code |-> 500])
               /\ hist' = hist
          ELSE /\ procs' = [procs EXCEPT ![p].pc = "stats"]
               /\ last' = last
               /\ hist' = [hist EXCEPT !.lastWrite =
                      LastWriteAfterVote(
                          VoteKey(req.handle, req.platform, procs[p].ip_hash),
                          req.vote_type, req.comment)]
    /\ UNCHANGED << cfgVars, now, rlCount, rlLog, subs, market, cache, feedback >>

\* A handler that answers with the statistics of an entity without votes.
vote_on_influencer_stats_Stale(p, ok) ==
    /\ procs[p].op = "vote" /\ procs[p].pc = "stats"
    /\ procs' = [procs EXCEPT ![p] =
           [op |-> "vote", pc |-> "sync", req |-> procs[p].req,
            ip_hash |-> procs[p].ip_hash, stats |-> ZeroStats]]
    /\ UNCHANGED << cfgVars, now, rlCount, rlLog, subs, market, cache, votes,
                    last, hist, feedback >>

\* get_vote_stats for the response
vote_on_influencer_stats(p, ok) ==
    /\ procs[p].op = "vote" /\ procs[p].pc = "stats"
    /\ procs' = [procs EXCEPT ![p] =
           [op |-> "vote", pc |-> "sync", req |-> procs[p].req,
            ip_hash |-> procs[p].ip_hash,
            stats |-> get_vote_stats(procs[p].req.handle, procs[p].req.platform, ok)]]
    /\ UNCHANGED << cfgVars, now, rlCount, rlLog, subs, market, cache, votes,
                    last, hist, feedback >>

\* A handler that fails the vote when the marketplace sync fails.
vote_on_influencer_sync_Strict(p, ok_stats, ok) ==
    /\ procs[p].op = "vote" /\ procs[p].pc = "sync"
    /\ market' = update_marketplace_user_score(procs[p].req.handle,
                                               procs[p].req.platform, ok_stats, ok)
    /\ Respond(p, [op |-> "vote", code |-> IF ok THEN 200 ELSE 500,
                   handle |-> procs[p].req.handle,
                   platform |-> procs[p].req.platform,
                   vote_type |-> procs[p].req.vote_type,
                   vote_stats |-> procs[p].stats])
    /\ UNCHANGED << cfgVars, now, rlCount, rlLog, subs, cache, votes, hist, feedback >>

\* update_marketplace_user_score, then the VoteResponse
vote_on_influencer_sync(p, ok_stats, ok) ==
    /\ procs[p].op = "vote" /\ procs[p].pc = "sync"
    /\ market' = update_marketplace_user_score(procs[p].req.handle,
                                               procs[p].req.platform, ok_stats, ok)
    /\ Respond(p, [op |-> "vote", code |-> 200,
                   handle |-> procs[p].req.handle,
                   platform |-> procs[p].req.platform,
                   vote_type |-> procs[p].req.vote_type,
                   vote_stats |-> procs[p].stats])
    /\ UNCHANGED << cfgVars, now, rlCount, rlLog, subs, cache, votes, hist, feedback >>

\* remove_vote: is_supabase_available, then delete_vote, 404 when it
\* returns False
remove_vote_start(p, handle, platform, host, ok) ==
    /\ procs[p].op = "idle"
    /\ hist.calls < MaxVoteOps
    /\ LET ip_hash == hash_ip_address(get_client_ip(host))
       IN
       IF ~configured
       THEN /\ Respond(p, [op |-> "remove_vote", code |-> 503])
            /\ hist' = [hist EXCEPT !.calls = @ + 1]
            /\ votes' = votes
       ELSE /\ votes' = delete_vote(handle, platform, ip_hash, ok)
            /\ IF ~delete_vote_returns(handle, platform, ip_hash, ok)
               THEN /\ Respond(p, [op |-> "remove_vote", code |-> 404])
                    /\ hist' = [hist EXCEPT !.calls = @ + 1]
               ELSE /\ procs' = [procs EXCEPT ![p] =
                            [op |-> "remove_vote", pc |-> "sync",
                             handle |-> handle, platform |-> platform]]
                    /\ last' = last
                    /\ hist' = [hist EXCEPT
                           !.calls = @ + 1,
                           !.lastWrite =
                               LastWriteAfterDelete(VoteKey(handle, platform, ip_hash))]
    /\ UNCHANGED << cfgVars, now, rlCount, rlLog, subs, market, cache, feedback >>

\* update_marketplace_user_score, then the message
remove_vote_sync(p, ok_stats, ok) ==
    /\ procs[p].op = "remove_vote" /\ procs[p].pc = "sync"
    /\ market' = update_marketplace_user_score(procs[p].handle, procs[p].platform,
                                               ok_stats, ok)
    /\ Respond(p, [op |-> "remove_vote", code |-> 200,
                   handle |-> procs[p].handle, platform |-> procs[p].platform])
    /\ UNCHANGED << cfgVars, now, rlCount, rlLog, subs, cache, votes, hist, feedback >>

\* get_influencer_vote_status: is_supabase_available, then get_user_vote
get_influencer_vote_status_start(p, handle, platform, host, ok) ==
    /\ procs[p].op = "idle"
    /\ LET ip_hash == hash_ip_address(get_client_ip(host))
       IN
       IF ~configured
       THEN Respond(p, [op |-> "vote_status", code |-> 503])
       ELSE /\ procs' = [procs EXCEPT ![p] =
                    [op |-> "vote_status", pc |-> "stats", handle |-> handle,
                     platform |-> platform,
                     user_vote |-> get_user_vote(handle, platform, ip_hash, ok)]]
            /\ last' = last
    /\ UNCHANGED << cfgVars, now, rlCount, rlLog, subs, market, cache, votes,
                    hist, feedback >>

\* get_vote_stats, then the UserVoteStatus; answered tells whether the store
\* answered the select.
get_influencer_vote_status_stats(p, ok) ==
    /\ procs[p].op = "vote_status" /\ procs[p].pc = "stats"
    /\ last' = [op |-> "vote_status", code |-> 200,
                handle |-> procs[p].handle, platform |-> procs[p].platform,
                user_vote |-> procs[p].user_vote,
                vote_stats |-> get_vote_stats(procs[p].handle, procs[p].platform, ok),
                answered |-> ok]
    /\ procs' = [procs EXCEPT ![p] = IdleProc]
    /\ UNCHANGED << cfgVars, now, rlCount, rlLog, subs, market, cache, votes,
                    hist, feedback >>

VoteHandles == { <<"a">>, <<"@", "A">> }
VoteHosts == { "ip1", "ip2" }
VotePlatforms == { "instagram" }
VoteRequests ==
    [handle : VoteHandles, platform : VotePlatforms, vote_type : VoteTypes,
     comment : Comments]

NextVotes ==
    \/ \E p \in Procs, req \in VoteRequests, host \in VoteHosts, ok \in BOOLEAN :
          vote_on_influencer_start(p, req, host, ok)
    \/ \E p \in Procs, ok \in BOOLEAN : vote_on_influencer_upsert(p, ok)
    \/ \E p \in Procs, ok \in BOOLEAN : vote_on_influencer_stats(p, ok)
    \/ \E p \in Procs, ok_stats \in BOOLEAN, ok \in BOOLEAN :
          vote_on_influencer_sync(p, ok_stats, ok)
    \/ \E p \in Procs, handle \in VoteHandles, platform \in VotePlatforms,
          host \in VoteHosts, ok \in BOOLEAN :
          remove_vote_start(p, handle, platform, host, ok)
    \/ \E p \in Procs, ok_stats \in BOOLEAN, ok \in BOOLEAN :
          remove_vote_sync(p, ok_stats, ok)

\* The marketplace holds the published entry of a.
InitVotes ==
    /\ configured \in BOOLEAN
    /\ adminApiKey = None
    /\ dailyLimit = 1
    /\ now = 0
    /\ rlCount = << >>
    /\ rlLog = << >>
    /\ subs = <<>>
    /\ market = {[handle |-> <<"a">>, platform |-> "instagram", trust |-> "t1",
                  admin_notes |-> None, total_votes |-> 0,
                  user_trust_score |-> HalfScore]}
    /\ cache = {}
    /\ votes = {}
    /\ feedback = <<>>
    /\ procs = [p \in Procs |-> IdleProc]
    /\ last = NoResp
    /\ hist = [InitHist EXCEPT !.trace = FALSE]

SpecVotes == InitVotes /\ [][NextVotes]_vars

----------------------------------------------------------------------------
(* Vote statistics over a given influencer_votes table *)

StatsVoters == { "ip1", "ip2", "ip3", "ip4" }
StatsChoices == VoteTypes \cup { None }

\* The tables in which the voters of StatsVoters hold at most one vote on a
\* and ip1 at most one on A.
StatsTables ==
    { {[influencer_handle |-> <<"a">>, influencer_platform |-> "instagram",
        vote_type |-> f[i], voter_ip_hash |-> hash_ip_address(i),
        comment |-> None] : i \in {j \in StatsVoters : f[j] # None}}
      \cup
      {[influencer_handle |-> <<"A">>, influencer_platform |-> "instagram",
        vote_type |-> t, voter_ip_hash |-> hash_ip_address("ip1"),
        comment |-> None] : t \in {g} \ {None}}
      : f \in [StatsVoters -> StatsChoices], g \in StatsChoices }

NextStats ==
    \/ \E p \in Procs, handle \in VoteHandles \cup {<<"b">>},
          platform \in VotePlatforms, host \in VoteHosts, ok \in BOOLEAN :
          get_influencer_vote_status_start(p, handle, platform, host, ok)
    \/ \E p \in Procs, ok \in BOOLEAN : get_influencer_vote_status_stats(p, ok)

InitStats ==
    /\ configured \in BOOLEAN
    /\ adminApiKey = None
    /\ dailyLimit = 1
    /\ now = 0
    /\ rlCount = << >>
    /\ rlLog = << >>
    /\ subs = <<>>
    /\ market = {}
    /\ cache = {}
    /\ votes \in StatsTables
    /\ feedback = <<>>
    /\ procs = [p \in Procs |-> IdleProc]
    /\ last = NoResp
    /\ hist = InitHist

SpecStats == InitStats /\ [][NextStats]_vars

----------------------------------------------------------------------------
(* Votes cast, removed and read back, with the responses kept *)

NextTally ==
    \/ \E p \in Procs, req \in {r \in VoteRequests : r.comment = None},
          host \in {"ip1"} :
          vote_on_influencer_start(p, req, host, TRUE)
    \/ \E p \in Procs : vote_on_influencer_upsert(p, TRUE)
    \/ \E p \in Procs, ok \in BOOLEAN : vote_on_influencer_stats(p, ok)
    \/ \E p \in Procs, ok_stats \in BOOLEAN, ok \in BOOLEAN :
          vote_on_influencer_sync(p, ok_stats, ok)
    \/ \E p \in Procs, handle \in VoteHandles, platform \in VotePlatforms,
          host \in {"ip1"} :
          remove_vote_start(p, handle, platform, host, TRUE)
    \/ \E p \in Procs, ok_stats \in BOOLEAN, ok \in BOOLEAN :
          remove_vote_sync(p, ok_stats, ok)
    \/ \E p \in Procs, handle \in VoteHandles, platform \in VotePlatforms,
          host \in {"ip1"}, ok \in BOOLEAN :
          get_influencer_vote_status_start(p, handle, platform, host, ok)
    \/ \E p \in Procs, ok \in BOOLEAN : get_influencer_vote_status_stats(p, ok)

\* The voter ip1 has made no vote call in the current hour, or one fewer
\* than the hourly limit.
InitTally ==
    /\ InitTables
    /\ configured
    /\ adminApiKey = None
    /\ dailyLimit = 1
    /\ \E n \in {0, VOTE_LIMIT - 1} :
          hist = [InitHist EXCEPT !.voteCalls =
                     IF n = 0 THEN << >>
                     ELSE (hash_ip_address(get_client_ip("ip1")) :> n)]

SpecTally == InitTally /\ [][NextTally]_vars

----------------------------------------------------------------------------
(* Votes and the marketplace sync, with the published entry of a *)

\* The marketplace holds the published entry of a; the responses are kept.
InitMarket ==
    /\ configured = TRUE
    /\ adminApiKey = None
    /\ dailyLimit = 1
    /\ now = 0
    /\ rlCount = << >>
    /\ rlLog = << >>
    /\ subs = <<>>
    /\ cache = {}
    /\ votes = {}
    /\ feedback = <<>>
    /\ procs = [p \in Procs |-> IdleProc]
    /\ last = NoResp
    /\ market = {[handle |-> <<"a">>, platform |-> "instagram", trust |-> "t1",
                  admin_notes |-> None, total_votes |-> 0,
                  user_trust_score |-> HalfScore]}
    /\ hist = InitHist

\* The store answers the vote writes and the statistics of the response;
\* the sync may fail at its statistics or at its update.
NextSync ==
    \/ \E p \in Procs, req \in {r \in VoteRequests : r.comment = None},
          host \in VoteHosts :
          vote_on_influencer_start(p, req, host, TRUE)
    \/ \E p \in Procs : vote_on_influencer_upsert(p, TRUE)
    \/ \E p \in Procs : vote_on_influencer_stats(p, TRUE)
    \/ \E p \in Procs, ok_stats \in BOOLEAN, ok \in BOOLEAN :
          vote_on_influencer_sync(p, ok_stats, ok)
    \/ \E p \in Procs, handle \in VoteHandles, platform \in VotePlatforms,
          host \in VoteHosts :
          remove_vote_start(p, handle, platform, host, TRUE)
    \/ \E p \in Procs, ok_stats \in BOOLEAN, ok \in BOOLEAN :
          remove_vote_sync(p, ok_stats, ok)

SpecSync == InitMarket /\ [][NextSync]_vars

\* The store answers every call.
NextEntity ==
    \/ \E p \in Procs, req \in {r \in VoteRequests : r.comment = None},
          host \in VoteHosts :
          vote_on_influencer_start(p, req, host, TRUE)
    \/ \E p \in Procs : vote_on_influencer_upsert(p, TRUE)
    \/ \E p \in Procs : vote_on_influencer_stats(p, TRUE)
    \/ \E p \in Procs : vote_on_influencer_sync(p, TRUE, TRUE)
    \/ \E p \in Procs, handle \in VoteHandles, platform \in VotePlatforms,
          host \in VoteHosts :
          remove_vote_start(p, handle, platform, host, TRUE)
    \/ \E p \in Procs : remove_vote_sync(p, TRUE, TRUE)

SpecEntity == InitMarket /\ [][NextEntity]_vars

----------------------------------------------------------------------------
(* POST /feedback: backend/app/repositories/feedback.py and submit_feedback *)
(* of backend/api/routes.py                                                *)

MaxFeedback == 2

\* check_feedback_rate_limit: "raise" when there is no client or the store
\* returns no data, else the answer of the store function
\* check_feedback_rate_limit(p_ip_hash, p_session_hash), an input here.
check_feedback_rate_limit(ip_address, session_id, ok, rpc_allows) ==
    IF ~configured THEN "raise"
    ELSE IF ~ok THEN "raise"
    ELSE IF rpc_allows THEN "pass" ELSE "deny"

\* submit_user_feedback: the table after the insert
submit_user_feedback(ip_address, session_id, ok) ==
    IF ~configured \/ ~ok THEN feedback
    ELSE Append(feedback, [ip_hash |-> hash_ip_address(ip_address),
                           session_hash |-> hash_ip_address(session_id)])

\* submit_feedback: 429 when the limiter denies, 503 when it raises, else
\* the insert and a 200 whether or not the row was stored.  No other handler
\* reads user_feedback, so its two store calls are taken in one step.
submit_feedback(host, ok, rpc_allows, ok_ins) ==
    /\ Len(feedback) < MaxFeedback
    /\ hist.calls < MaxCalls
    /\ LET ip_address == IF host = None THEN "unknown" ELSE host
           session_id == << ip_address, "agent" >>
           c == check_feedback_rate_limit(ip_address, session_id, ok, rpc_allows)
       IN
       /\ hist' = [PolicyAfter("feedback", c = "raise", FALSE)
                       EXCEPT !.calls = @ + 1]
       /\ IF c = "deny"
          THEN /\ last' = [op |-> "submit_feedback", code |-> 429]
               /\ feedback' = feedback
          ELSE IF c = "raise"
          THEN /\ last' = [op |-> "submit_feedback", code |-> 503]
               /\ feedback' = feedback
          ELSE /\ feedback' = submit_user_feedback(ip_address, session_id, ok_ins)
               /\ last' = [op |-> "submit_feedback", code |-> 200,
                           stored |-> feedback' # feedback]
    /\ UNCHANGED << cfgVars, now, rlCount, rlLog, subs, market, cache, votes,
                    procs >>

----------------------------------------------------------------------------
(* The four limiters side by side *)

PolicyVoteRequests ==
    [handle : {<<"a">>}, platform : VotePlatforms, vote_type : {"trust"},
     comment : {None}]

NextPolicy ==
    \/ \E ok \in BOOLEAN, llm_ok \in BOOLEAN :
          analyze_text("ip1", <<"h", "i">>, ok, llm_ok)
    \/ \E ok \in BOOLEAN, fetch_ok \in BOOLEAN :
          influencer_stats("ip1", <<"a">>, ok, fetch_ok)
    \/ \E host \in Hosts, ok \in BOOLEAN, rpc_allows \in BOOLEAN,
          ok_ins \in BOOLEAN :
          submit_feedback(host, ok, rpc_allows, ok_ins)
    \/ \E p \in Procs, handle \in SubHandles, platform \in SubPlatforms,
          ok \in BOOLEAN :
          submit_influencer_start(p, handle, platform, "ip1", ok)
    \/ \E p \in Procs, ok \in BOOLEAN : submit_influencer_dup(p, ok)
    \/ \E p \in Procs, ok \in BOOLEAN : submit_influencer_insert(p, ok)
    \/ \E p \in Procs, req \in PolicyVoteRequests, ok \in BOOLEAN :
          vote_on_influencer_start(p, req, "ip1", ok)
    \/ \E p \in Procs, ok \in BOOLEAN : vote_on_influencer_upsert(p, ok)
    \/ \E p \in Procs, ok \in BOOLEAN : vote_on_influencer_stats(p, ok)
    \/ \E p \in Procs, ok_stats \in BOOLEAN, ok \in BOOLEAN :
          vote_on_influencer_sync(p, ok_stats, ok)

InitPolicy ==
    /\ InitTables
    /\ adminApiKey = None
    /\ dailyLimit = MaxLimit
    /\ hist = [InitHist EXCEPT !.trace = FALSE]

SpecPolicy == InitPolicy /\ [][NextPolicy]_vars

----------------------------------------------------------------------------
(* ScoreAggregator: backend/services/trust.py and the reputation judge of  *)
(* backend/services/mistral.py.  A score is a whole number of millionths;  *)
(* a quotient that is not whole is cut to the millionth below.             *)

\* The classifier's answer for a post: a label, "unparseable" when the reply
\* holds no JSON object (call_mistral_json then returns {}), "fail" when the
\* call raises.
ClassifierAnswers == { "scam", "not_scam", "uncertain", "unparseable", "fail" }

\* Captions: empty, blank, plain, or carrying an ad marker.
Captions == { "", " ", "plain", "#ad" }
PostLists == { <<>>, <<"">>, <<"plain">>, <<"#ad">>, <<" ", "#ad">>,
               <<"plain", "#ad">>, <<"plain", "plain">> }

\* Optional[int]: <<>> is None
FollowerCounts == { <<>>, <<0>>, <<100>>, <<1000>>, <<100000>> }
FollowingCounts == { <<>>, <<0>>, <<150>>, <<2000>> }

\* The judge's answer: a reliability in millionths (the reply may be out of
\* range), a reply without a JSON object, or a call that raises.
JudgeAnswers ==
    [kind : {"value"}, v : {0, 250000, 750000, ONE, 1500000}]
        \cup [kind : {"unparseable", "fail"}, v : {0}]

RECURSIVE SumSeq(_)
SumSeq(q) == IF q = <<>> THEN 0 ELSE Head(q) + SumSeq(Tail(q))

RECURSIVE SelectIdx(_, _, _)
\* the entries of q at the positions whose caption satisfies keep
SelectIdx(q, posts, keep) ==
    IF posts = <<>> THEN <<>>
    ELSE (IF Head(posts) \in keep THEN << Head(q) >> ELSE <<>>)
             \o SelectIdx(Tail(q), Tail(posts), keep)

\* mistral_scam_check(text).label for the classifier's answer
mistral_scam_check(answer) ==
    IF answer = "unparseable" THEN "uncertain" ELSE answer

\* compute_message_history_score: answers[i] is the classifier's answer for
\* sample_posts[i]; only the posts with text are classified.  <<>> when a
\* classifier call raises, else << score >>.
compute_message_history_score(sample_posts, answers) ==
    LET meaningful == SelectIdx(answers, sample_posts, {"plain", "#ad"})
        scores == [i \in 1..Len(meaningful) |->
                      IF mistral_scam_check(meaningful[i]) = "scam" THEN 0
                      ELSE IF mistral_scam_check(meaningful[i]) = "not_scam" THEN ONE
                      ELSE ONE \div 2]
    IN IF meaningful = <<>> THEN << ONE \div 2 >>
       ELSE IF \E i \in 1..Len(meaningful) : meaningful[i] = "fail" THEN <<>>
       ELSE << SumSeq(scores) \div Len(scores) >>

RECURSIVE Log10(_)
\* math.log10 of a power of ten
Log10(n) == IF n < 10 THEN 0 ELSE 1 + Log10(n \div 10)

\* compute_followers_score
compute_followers_score(followers, following) ==
    IF followers = <<>> \/ followers[1] <= 0 THEN ONE \div 2
    ELSE LET log_f == Log10(Max(followers[1], 1))
             followers_size_score == Max(0, Min(ONE, ((log_f - 2) * ONE) \div 3))
             ratio == IF following = <<>> THEN 0
                      ELSE (following[1] * ONE) \div followers[1]
             ratio_score == IF following # <<>> /\ ratio > ONE
                            THEN Max(0, ONE - (ratio - ONE)) ELSE ONE
         IN (7 * followers_size_score + 3 * ratio_score) \div 10

\* compute_disclosure_score
compute_disclosure_score(sample_posts) ==
    LET counted == SelectIdx(sample_posts, sample_posts, {" ", "plain", "#ad"})
        total == Len(counted)
        disclosures == Len(SelectIdx(sample_posts, sample_posts, {"#ad"}))
    IN IF total = 0 THEN 300000
       ELSE IF 10 * disclosures >= 6 * total THEN ONE
       ELSE IF disclosures > 0 THEN 600000
       ELSE 300000

\* A combination that gives the web reputation the weight 0.30 and the
\* message history 0.40.
combine_trust_score_SwappedWeights(message_history_score, followers_score, web_reputation_score, disclosure_score) ==
    (400 * message_history_score + 150 * followers_score
        + 300 * web_reputation_score + 150 * disclosure_score) \div 1000

\* combine_trust_score
combine_trust_score(message_history_score, followers_score, web_reputation_score, disclosure_score) ==
    (300 * message_history_score + 150 * followers_score
        + 400 * web_reputation_score + 150 * disclosure_score) \div 1000

\* A labelling whose upper threshold is exclusive.
label_from_trust_score_Strict(score) ==
    IF score > 750000 THEN "high"
    ELSE IF score >= 400000 THEN "medium"
    ELSE "low"

\* label_from_trust_score
label_from_trust_score(score) ==
    IF score >= 750000 THEN "high"
    ELSE IF score >= 400000 THEN "medium"
    ELSE "low"

\* evaluate_*_reputation(...).get("*_reliability", 0.5): the default without
\* a call when there are no snippets, the default again when the reply is
\* {}; raised when call_mistral_json raises.
evaluate_reputation(snippets, answer) ==
    IF snippets = 0
    THEN [raised |-> FALSE, value |-> ONE \div 2, called |-> FALSE]
    ELSE IF answer.kind = "fail"
    THEN [raised |-> TRUE, value |-> 0, called |-> TRUE]
    ELSE IF answer.kind = "unparseable"
    THEN [raised |-> FALSE, value |-> ONE \div 2, called |-> TRUE]
    ELSE [raised |-> FALSE, value |-> answer.v, called |-> TRUE]

\* Field(..., ge=0.0, le=1.0) of the response models
InUnit(x) == 0 <= x /\ x <= ONE

\* An assessment whose response model accepts any value.
build_influencer_trust_response_Unvalidated(fetch_ok, stats, answers, snippets, judge) ==
    LET mh == compute_message_history_score(stats.sample_posts, answers)
        followers_score == compute_followers_score(stats.followers, stats.following)
        disclosure_score == compute_disclosure_score(stats.sample_posts)
        web_reputation == evaluate_reputation(snippets, judge)
        trust_score == combine_trust_score(mh[1], followers_score,
                                           web_reputation.value, disclosure_score)
    IN IF ~fetch_ok THEN [code |-> 502, data |-> <<>>, called |-> {"profile"}]
       ELSE IF mh = <<>> \/ web_reputation.raised
       THEN [code |-> 503, data |-> <<>>, called |-> {"profile", "classifier"}]
       ELSE [code |-> 200,
             data |-> << [trust_score |-> trust_score,
                          label |-> label_from_trust_score(trust_score),
                          message_history_score |-> mh[1],
                          followers_score |-> followers_score,
                          web_reputation_score |-> web_reputation.value,
                          disclosure_score |-> disclosure_score] >>,
             called |-> {"profile", "search"}]

\* build_influencer_trust_response after a cache miss (lines 142-183): the
\* profile fetch, the classification of the posts, the search, the judge,
\* the scores and the InfluencerTrustResponse.  code is the status the
\* request ends with when a call raises or the response model refuses the
\* values; called is the set of collaborators invoked.
build_influencer_trust_response(fetch_ok, stats, answers, snippets, judge) ==
    LET mh == compute_message_history_score(stats.sample_posts, answers)
        classified == IF SelectIdx(answers, stats.sample_posts, {"plain", "#ad"}) = <<>>
                      THEN {} ELSE {"classifier"}
        followers_score == compute_followers_score(stats.followers, stats.following)
        disclosure_score == compute_disclosure_score(stats.sample_posts)
        web_reputation == evaluate_reputation(snippets, judge)
        judged == IF web_reputation.called THEN {"judge"} ELSE {}
        web_score == web_reputation.value
        trust_score == combine_trust_score(mh[1], followers_score, web_score,
                                           disclosure_score)
    IN IF ~fetch_ok THEN [code |-> 502, data |-> <<>>, called |-> {"profile"}]
       ELSE IF mh = <<>>
       THEN [code |-> 503, data |-> <<>>, called |-> {"profile", "classifier"}]
       ELSE IF web_reputation.raised
       THEN [code |-> 503, data |-> <<>>,
             called |-> {"profile", "search", "judge"} \cup classified]
       ELSE IF ~(InUnit(web_score) /\ InUnit(trust_score))
       THEN [code |-> 502, data |-> <<>>,
             called |-> {"profile", "search"} \cup classified \cup judged]
       ELSE [code |-> 200,
             data |-> << [trust_score |-> trust_score,
                          label |-> label_from_trust_score(trust_score),
                          message_history_score |-> mh[1],
                          followers_score |-> followers_score,
                          web_reputation_score |-> web_score,
                          disclosure_score |-> disclosure_score] >>,
             called |-> {"profile", "search"} \cup classified \cup judged]

\* build_company_trust_response / build_product_trust_response after a
\* cache miss: the search, the judge and the response model.
build_reputation_trust_response(snippets, judge) ==
    LET reputation == evaluate_reputation(snippets, judge)
        judged == IF reputation.called THEN {"judge"} ELSE {}
    IN IF reputation.raised
       THEN [code |-> 503, data |-> <<>>, called |-> {"search", "judge"}]
       ELSE IF ~InUnit(reputation.value)
       THEN [code |-> 500, data |-> <<>>, called |-> {"search"} \cup judged]
       ELSE [code |-> 200, data |-> << [trust_score |-> reputation.value] >>,
             called |-> {"search"} \cup judged]

\* The scoring functions applied to given arguments.
Grid == { 0, 250000, 500000, 750000, ONE }
LabelPoints == { 0, 399999, 400000, 749999, 750000, ONE }
ProfileStats ==
    [sample_posts : PostLists, followers : FollowerCounts,
     following : FollowingCounts]
AnswerLists == [1..2 -> {"scam", "not_scam", "unparseable", "fail"}]

\* The calls a caller may have pending.
ScoreCalls ==
    [op : {"combine"}, pc : {"call"}, mh : Grid, f : Grid, w : Grid, d : Grid]
    \cup [op : {"label"}, pc : {"call"}, score : LabelPoints]
    \cup [op : {"assess"}, pc : {"call"}, fetch_ok : BOOLEAN,
          stats : ProfileStats, answers : AnswerLists, snippets : {0, 3},
          judge : JudgeAnswers]

call_combine_trust_score(p) ==
    /\ procs[p].op = "combine" /\ procs[p].pc = "call"
    /\ Respond(p, [op |-> "combine", mh |-> procs[p].mh, f |-> procs[p].f,
                   w |-> procs[p].w, d |-> procs[p].d,
                   result |-> combine_trust_score(procs[p].mh, procs[p].f,
                                                  procs[p].w, procs[p].d)])
    /\ UNCHANGED << cfgVars, now, rlCount, rlLog, subs, market, cache, votes,
                    hist, feedback >>

call_label_from_trust_score(p) ==
    /\ procs[p].op = "label" /\ procs[p].pc = "call"
    /\ Respond(p, [op |-> "label", score |-> procs[p].score,
                   result |-> label_from_trust_score(procs[p].score)])
    /\ UNCHANGED << cfgVars, now, rlCount, rlLog, subs, market, cache, votes,
                    hist, feedback >>

\* The response keeps which collaborator calls raised and whether every
\* classifier and judge call failed or was unparseable.
call_build_influencer_trust_response(p) ==
    /\ procs[p].op = "assess" /\ procs[p].pc = "call"
    /\ LET c == procs[p] IN
       Respond(p, [op |-> "assess",
                   classifier_failed |->
                       compute_message_history_score(c.stats.sample_posts,
                                                     c.answers) = <<>>,
                   judge_failed |-> evaluate_reputation(c.snippets, c.judge).raised,
                   fetch_ok |-> c.fetch_ok,
                   judge |-> c.judge,
                   response |-> build_influencer_trust_response(
                                    c.fetch_ok, c.stats, c.answers, c.snippets,
                                    c.judge)])
    /\ UNCHANGED << cfgVars, now, rlCount, rlLog, subs, market, cache, votes,
                    hist, feedback >>

NextScore ==
    \/ \E p \in Procs : call_combine_trust_score(p)
    \/ \E p \in Procs : call_label_from_trust_score(p)
    \/ \E p \in Procs : call_build_influencer_trust_response(p)

\* One caller holds a pending call of one of the scoring functions.
InitScore ==
    /\ configured = TRUE
    /\ adminApiKey = None
    /\ dailyLimit = 1
    /\ now = 0
    /\ rlCount = << >>
    /\ rlLog = << >>
    /\ subs = <<>>
    /\ market = {}
    /\ cache = {}
    /\ votes = {}
    /\ feedback = <<>>
    /\ \E c \in ScoreCalls :
          procs = [p \in Procs |-> IF p = 1 THEN c ELSE IdleProc]
    /\ last = NoResp
    /\ hist = InitHist

SpecScore == InitScore /\ [][NextScore]_vars

----------------------------------------------------------------------------
(* Trust endpoints: backend/api/routes.py influencer_trust, company_trust, *)
(* product_trust and the builders of backend/services/trust.py            *)

TrustKinds == { "influencer", "company", "product" }
Collaborators == { "profile", "search", "classifier", "judge" }

\* The endpoint group each trust endpoint hands to check_rate_limit.
TrustGroup(kind) == IF kind = "influencer" THEN "influencer" ELSE "trust"

\* A cache that keeps the rows of all kinds in one table.
TrustTable_OneTable(kind) == "instagram"

\* The rows of influencer_cache, company_cache and product_cache are kept in
\* `cache`; the column `platform` holds "instagram" for an influencer row
\* and the table name for a company or product row, whose `handle` column is
\* the table's `name` column.
TrustTable(kind) ==
    IF kind = "influencer" THEN "instagram"
    ELSE IF kind = "company" THEN "company_cache" ELSE "product_cache"

\* The key get_cached_influencer / get_cached_company / get_cached_product
\* read under.
TrustCacheKey(kind, name) ==
    IF kind = "influencer" THEN cache_normalize_handle(name) ELSE Lower(name)

\* get_cached_influencer / get_cached_company / get_cached_product:
\* <<analysis_data>> of a stored entry that is not expired, else <<>> (None).
get_cached(kind, name) ==
    LET record == _get_latest_record(TrustCacheKey(kind, name), TrustTable(kind))
    IN IF record # <<>> THEN << record[1].analysis_data >> ELSE <<>>

\* cache_company / cache_product: the table afterwards.
cache_company(name, table, analysis_data, ok) ==
    IF ~configured \/ ~ok THEN cache
    ELSE Upsert(cache,
                [handle |-> Lower(name),
                 platform |-> table,
                 analysis_data |-> analysis_data,
                 updated_at |-> now],
                {"handle", "platform"})

\* The cache write at the end of each builder.
cache_put(kind, name, analysis_data, ok) ==
    IF kind = "influencer"
    THEN cache_influencer(name, "instagram", analysis_data, ok)
    ELSE cache_company(name, TrustTable(kind), analysis_data, ok)

\* The response of a trust request.  looked: the cache was read; called: the
\* collaborators invoked; wrote: a cache write was made; stored: the store
\* performed it; source: where the returned assessment comes from.
TrustResponse(kind, handle, code, looked, read_ok, called, wrote, stored, source, data) ==
    [op |-> "trust", kind |-> kind, handle |-> handle, code |-> code,
     key |-> TrustCacheKey(kind, handle),
     looked |-> looked, read_ok |-> read_ok, called |-> called,
     wrote |-> wrote, stored |-> stored, source |-> source, data |-> data]

\* An endpoint that reads the cache before it asks the limiter.
trust_start_CacheFirst(p, kind, name, host, ok) ==
    /\ procs[p] = IdleProc
    /\ hist.calls < MaxCalls
    /\ LET handle == Strip(name)
           cached == get_cached(kind, handle)
           r == check_rate_limit(host, TrustGroup(kind), ok)
       IN
       /\ rlCount' = RlCountAfter(host, TrustGroup(kind), r)
       /\ rlLog' = RlLogAfter(host, TrustGroup(kind), r)
       /\ hist' = [PolicyAfter("daily", ~r.answered, r.code = 0)
                       EXCEPT !.calls = @ + 1]
       /\ IF r.code = 429
          THEN /\ last' = TrustResponse(kind, handle, 429, TRUE, TRUE, {},
                                        FALSE, FALSE, None, cached)
               /\ procs' = procs
          ELSE IF handle = <<>>
          THEN /\ last' = TrustResponse(kind, handle, 400, FALSE, FALSE, {},
                                        FALSE, FALSE, None, <<>>)
               /\ procs' = procs
          ELSE /\ procs' = [procs EXCEPT ![p] =
                               [op |-> "trust", pc |-> "lookup", kind |-> kind,
                                handle |-> handle, key |-> <<>>,
                                called |-> {}, result |-> <<>>]]
               /\ last' = last
    /\ UNCHANGED << cfgVars, now, subs, market, cache, votes, feedback >>

\* An endpoint that tests the name before it asks the limiter, so that a
\* request with an empty name costs no quota.
trust_start_ValidateFirst(p, kind, name, host, ok) ==
    /\ procs[p] = IdleProc
    /\ hist.calls < MaxCalls
    /\ LET handle == Strip(name)
           r == check_rate_limit(host, TrustGroup(kind), ok)
       IN
       IF handle = <<>>
       THEN /\ last' = TrustResponse(kind, handle, 400, FALSE, FALSE, {},
                                     FALSE, FALSE, None, <<>>)
            /\ hist' = [hist EXCEPT !.calls = @ + 1]
            /\ UNCHANGED << procs, rlCount, rlLog >>
       ELSE /\ rlCount' = RlCountAfter(host, TrustGroup(kind), r)
            /\ rlLog' = RlLogAfter(host, TrustGroup(kind), r)
            /\ hist' = [PolicyAfter("daily", ~r.answered, r.code = 0)
                            EXCEPT !.calls = @ + 1]
            /\ IF r.code = 429
               THEN /\ last' = TrustResponse(kind, handle, 429, FALSE, FALSE,
                                             {}, FALSE, FALSE, None, <<>>)
                    /\ procs' = procs
               ELSE /\ procs' = [procs EXCEPT ![p] =
                                    [op |-> "trust", pc |-> "lookup",
                                     kind |-> kind, handle |-> handle,
                                     key |-> <<>>, called |-> {},
                                     result |-> <<>>]]
                    /\ last' = last
    /\ UNCHANGED << cfgVars, now, subs, market, cache, votes, feedback >>

\* influencer_trust / company_trust / product_trust up to the call of the
\* builder: check_rate_limit, then the test of the stripped name.
trust_start(p, kind, name, host, ok) ==
    /\ procs[p] = IdleProc
    /\ hist.calls < MaxCalls
    /\ LET handle == Strip(name)
           r == check_rate_limit(host, TrustGroup(kind), ok)
       IN
       /\ rlCount' = RlCountAfter(host, TrustGroup(kind), r)
       /\ rlLog' = RlLogAfter(host, TrustGroup(kind), r)
       /\ hist' = [PolicyAfter("daily", ~r.answered, r.code = 0)
                       EXCEPT !.calls = @ + 1]
       /\ IF r.code = 429
          THEN /\ last' = TrustResponse(kind, handle, 429, FALSE, FALSE, {},
                                        FALSE, FALSE, None, <<>>)
               /\ procs' = procs
          ELSE IF handle = <<>>
          THEN /\ last' = TrustResponse(kind, handle, 400, FALSE, FALSE, {},
                                        FALSE, FALSE, None, <<>>)
               /\ procs' = procs
          ELSE /\ procs' = [procs EXCEPT ![p] =
                               [op |-> "trust", pc |-> "lookup", kind |-> kind,
                                handle |-> handle, key |-> <<>>,
                                called |-> {}, result |-> <<>>]]
               /\ last' = last
    /\ UNCHANGED << cfgVars, now, subs, market, cache, votes, feedback >>

\* The builder's cache read.  _get_latest_record has no try/except: a store
\* call that raises ends influencer_trust with 502 (its except clause) and
\* company_trust / product_trust with 500.
trust_lookup(p, ok) ==
    /\ procs[p].op = "trust" /\ procs[p].pc = "lookup"
    /\ LET c == procs[p]
           cached_data == get_cached(c.kind, c.handle)
       IN
       IF configured /\ ~ok
       THEN Respond(p, TrustResponse(c.kind, c.handle,
                                     IF c.kind = "influencer" THEN 502 ELSE 500,
                                     TRUE, FALSE, {}, FALSE, FALSE, None, <<>>))
       ELSE IF cached_data # <<>>
       THEN Respond(p, TrustResponse(c.kind, c.handle, 200, TRUE, TRUE, {},
                                     FALSE, FALSE, "cache", cached_data))
       ELSE /\ procs' = [procs EXCEPT ![p] =
                            [c EXCEPT !.pc = "compute",
                                      !.key = << TrustCacheKey(c.kind, c.handle) >>]]
            /\ last' = last
    /\ UNCHANGED << cfgVars, now, rlCount, rlLog, subs, market, cache, votes,
                    hist, feedback >>

\* The builder after a miss, up to the response model.
trust_compute(p, fetch_ok, stats, answers, snippets, judge) ==
    /\ procs[p].op = "trust" /\ procs[p].pc = "compute"
    /\ LET c == procs[p]
           b == IF c.kind = "influencer"
                THEN build_influencer_trust_response(fetch_ok, stats, answers,
                                                     snippets, judge)
                ELSE build_reputation_trust_response(snippets, judge)
       IN
       IF b.code # 200
       THEN Respond(p, TrustResponse(c.kind, c.handle, b.code, TRUE, TRUE,
                                     b.called, FALSE, FALSE, None, <<>>))
       ELSE /\ procs' = [procs EXCEPT ![p] =
                            [c EXCEPT !.pc = "store", !.called = b.called,
                                      !.result = b.data]]
            /\ last' = last
    /\ UNCHANGED << cfgVars, now, rlCount, rlLog, subs, market, cache, votes,
                    hist, feedback >>

\* The builder's cache write and return.
trust_store(p, ok) ==
    /\ procs[p].op = "trust" /\ procs[p].pc = "store"
    /\ LET c == procs[p] IN
       /\ cache' = cache_put(c.kind, c.handle, c.result[1], ok)
       /\ Respond(p, TrustResponse(c.kind, c.handle, 200, TRUE, TRUE, c.called,
                                   TRUE, configured /\ ok, "computed", c.result))
    /\ UNCHANGED << cfgVars, now, rlCount, rlLog, subs, market, votes, hist,
                    feedback >>

TrustNames == { <<"@", "A">>, <<" ">> }
TrustStats ==
    { [sample_posts |-> <<"plain">>, followers |-> <<1000>>,
       following |-> <<150>>] }

NextTrust ==
    \/ \E p \in Procs, kind \in TrustKinds, name \in TrustNames :
          trust_start(p, kind, name, "ip1", TRUE)
    \/ \E p \in Procs, ok \in BOOLEAN : trust_lookup(p, ok)
    \/ \E p \in Procs, stats \in TrustStats,
          answers \in {[i \in 1..2 |-> "not_scam"]},
          judge \in {[kind |-> "value", v |-> 750000],
                     [kind |-> "fail", v |-> 0]} :
          trust_compute(p, TRUE, stats, answers, 3, judge)
    \/ \E p \in Procs, ok \in BOOLEAN : trust_store(p, ok)
    \/ NextDay(MaxDay)

InitTrust ==
    /\ InitTables
    /\ adminApiKey = None
    /\ dailyLimit = 2
    /\ hist = InitHist

SpecTrust == InitTrust /\ [][NextTrust]_vars

----------------------------------------------------------------------------
(* Concurrent writers of the ReputationCache: cache_influencer,            *)
(* cache_company and cache_product called by several instances             *)

PutNames == { <<"a">>, <<"@", "A">>, <<"A">> }

\* The analysis_data an instance writes: `of` is the kind of response model
\* it was dumped from, head and tail stand for its first and last field.
PutPayload(kind, d) == [of |-> kind, head |-> d, tail |-> d]

\* An instance has computed an assessment and is about to cache it.
put_start(p, kind, name, d) ==
    /\ procs[p] = IdleProc
    /\ procs' = [procs EXCEPT ![p] =
                    [op |-> "put", pc |-> "pending", kind |-> kind,
                     name |-> name, data |-> PutPayload(kind, d),
                     returned |-> FALSE]]
    /\ UNCHANGED << cfgVars, now, rlCount, rlLog, subs, market, cache, votes,
                    last, hist, feedback >>

\* The instance's cache_influencer / cache_company / cache_product call: one
\* upsert, which the store applies as a whole or not at all.
put_apply(p, ok) ==
    /\ procs[p].op = "put" /\ procs[p].pc = "pending"
    /\ LET c == procs[p] IN
       /\ cache' = cache_put(c.kind, c.name, c.data, ok)
       /\ procs' = [procs EXCEPT ![p] =
                       [c EXCEPT !.pc = "done", !.returned = configured /\ ok]]
       /\ last' = [op |-> "cache_put", kind |-> c.kind, name |-> c.name,
                   returned |-> (configured /\ ok)]
       /\ hist' = [hist EXCEPT
                      !.lastPut = IF configured /\ ok
                                  THEN << [kind |-> c.kind, name |-> c.name,
                                           data |-> c.data, at |-> now] >>
                                  ELSE @]
    /\ UNCHANGED << cfgVars, now, rlCount, rlLog, subs, market, votes,
                    feedback >>

\* An instance reads the cache.
get_apply(kind, name) ==
    /\ hist.calls < MaxCacheOps
    /\ last' = [op |-> "get_cached", kind |-> kind, name |-> name,
                data |-> get_cached(kind, name), at |-> now]
    /\ hist' = [hist EXCEPT !.calls = @ + 1]
    /\ UNCHANGED << cfgVars, now, rlCount, rlLog, subs, market, cache, votes,
                    procs, feedback >>

NextPuts ==
    \/ \E p \in Procs, kind \in TrustKinds, name \in PutNames, d \in Payloads :
          put_start(p, kind, name, d)
    \/ \E p \in Procs, ok \in BOOLEAN : put_apply(p, ok)
    \/ \E kind \in TrustKinds, name \in PutNames : get_apply(kind, name)
    \/ NextDay(MaxDay)

InitPuts ==
    /\ InitTables
    /\ adminApiKey = None
    /\ dailyLimit = 1
    /\ hist = InitHist

SpecPuts == InitPuts /\ [][NextPuts]_vars

----------------------------------------------------------------------------
(* Properties of the RateLimiter *)

AllowedCount(k) == Cardinality({i \in 1..Len(rlLog[k]) : rlLog[k][i].allowed})

LoggedKeys == DOMAIN rlLog

\* C3: for every (client, endpoint group, day) key, at most dailyLimit of the
\* checks the store decided were allowed, whatever the order in which the
\* requests of the instances reach the store.
C3_AtMostLimitAllowed ==
    \A k \in LoggedKeys : AllowedCount(k) <= dailyLimit

\* C3 witness: a key whose quota is used up and that got a further check.
C3_Witness ==
    \E k \in LoggedKeys : AllowedCount(k) = dailyLimit /\ Len(rlLog[k]) > dailyLimit

\* C4: with daily limit N, the first N checks of a key are allowed and the
\* (N+1)th is refused with HTTP 429, current_count = N and remaining = 0.
C4_FirstNThenDenied ==
    \A k \in LoggedKeys : \A i \in 1..Len(rlLog[k]) :
        /\ i <= dailyLimit =>
              /\ rlLog[k][i].allowed
              /\ rlLog[k][i].code = 0
              /\ rlLog[k][i].current_count = i
        /\ i = dailyLimit + 1 =>
              /\ ~rlLog[k][i].allowed
              /\ rlLog[k][i].code = 429
              /\ rlLog[k][i].current_count = dailyLimit
              /\ rlLog[k][i].remaining = 0

\* C4 witness: the (N+1)th check of a key has been refused with 429.
C4_Witness ==
    /\ last.code = 429
    /\ \E k \in LoggedKeys : Len(rlLog[k]) = dailyLimit + 1

----------------------------------------------------------------------------
(* Properties of the SubmissionWorkflow *)

\* C1: once a submission is approved or rejected, no step of any request
\* changes its status again.
C1_TerminalIsFinal ==
    [][\A i \in 1..Len(subs) :
          Terminal(subs[i].status) => subs'[i].status = subs[i].status]_vars

AnalysisInFlight(i) ==
    \E p \in Procs : procs[p].op = "analyze" /\ procs[p].sid = i

\* C2: a submission is in status analyzing only while an analysis of it is
\* still running: every analysis that ends has put it back to pending.
C2_NeverStuckAnalyzing ==
    \A i \in 1..Len(subs) :
        subs[i].status = "analyzing" => AnalysisInFlight(i)

----------------------------------------------------------------------------
(* Properties of the ReputationCache *)

\* C6: a cache get returns nothing when the row of the key is older than 7
\* days, although the row is still stored, and returns the entry when the row
\* is 7 days old or younger.
C6_GetHonoursTtl ==
    last.op = "get_cached_influencer" =>
        /\ last.row_age > CACHE_EXPIRATION_DAYS => last.data = None
        /\ (configured /\ last.row_age >= 0 /\ last.row_age <= CACHE_EXPIRATION_DAYS)
              => last.data # None

\* C6 witness: a get found a stored row older than 7 days and returned
\* nothing, with the row still in the table.
C6_Witness ==
    /\ last.op = "get_cached_influencer"
    /\ last.row_age > CACHE_EXPIRATION_DAYS
    /\ last.data = None
    /\ \E r \in cache : r.handle = cache_normalize_handle(last.handle)
                        /\ r.platform = last.platform

\* The latest call was a get of the key of the latest successful put.
GetAfterPut ==
    /\ last.op = "get_cached_influencer"
    /\ hist.lastPut # <<>>
    /\ last.handle = hist.lastPut[1].handle
    /\ last.platform = hist.lastPut[1].platform

\* C7: a get of key k right after a successful put(k, v) returns v, and a get
\* of k made 8 days or more after the latest put returns nothing.
C7_RoundTrip ==
    GetAfterPut =>
        /\ last.at = hist.lastPut[1].at => last.data = hist.lastPut[1].data
        /\ last.at - hist.lastPut[1].at >= 8 => last.data = None

\* C7 witness: a get 8 days after the put of the same key came back empty.
C7_Witness ==
    /\ GetAfterPut
    /\ last.at - hist.lastPut[1].at >= 8
    /\ last.data = None

\* C7 witness of the first half: an immediate get returned the value put.
C7_WitnessImmediate ==
    /\ GetAfterPut
    /\ last.at = hist.lastPut[1].at
    /\ last.data = hist.lastPut[1].data

----------------------------------------------------------------------------
(* Properties of the limiters' failure policy *)

\* C5: when the store is unavailable or the limiter call fails, every
\* rate-limit check applies the same policy: the daily limiter and the
\* feedback, submission and vote limiters either all let the request through
\* or all block it.
C5_SamePolicy ==
    Cardinality(UNION {hist.policy[l] : l \in Limiters}) <= 1

----------------------------------------------------------------------------
(* Properties of the VotingLedger *)

RowsOfKey(k) ==
    {v \in votes : /\ v.influencer_handle = k[1]
                   /\ v.influencer_platform = k[2]
                   /\ v.voter_ip_hash = k[3]}

C9_RepeatVoteReplaces ==
    \A k \in DOMAIN hist.lastWrite :
        LET w == hist.lastWrite[k]
            stats == get_vote_stats(k[1], k[2], TRUE)
        IN w.present =>
              /\ \A v \in RowsOfKey(k) :
                    v.vote_type = w.vote_type /\ v.comment = w.comment
              /\ RowsOfKey(k) # {}
              /\ (\A v \in votes :
                     (v.influencer_handle = k[1] /\ v.influencer_platform = k[2])
                         => v.voter_ip_hash = k[3])
                 => /\ stats.total_votes = 1
                    /\ stats.trust_votes = IF w.vote_type = "trust" THEN 1 ELSE 0
                    /\ stats.distrust_votes = IF w.vote_type = "distrust" THEN 1 ELSE 0

\* A voter voted trust and then distrust with another comment on an entity
\* nobody else voted on, and the statistics are 0, 1, 1.
C9_Witness ==
    \E k \in DOMAIN hist.lastWrite :
        /\ hist.lastWrite[k].present
        /\ hist.lastWrite[k].prev = "trust"
        /\ hist.lastWrite[k].vote_type = "distrust"
        /\ \A v \in votes : v.influencer_handle = k[1] => v.voter_ip_hash = k[3]
        /\ get_vote_stats(k[1], k[2], TRUE).trust_votes = 0
        /\ get_vote_stats(k[1], k[2], TRUE).distrust_votes = 1
        /\ get_vote_stats(k[1], k[2], TRUE).total_votes = 1

\* The votes stored for the entity of a statistics response.
StoredFor(handle, platform) ==
    {v \in votes : v.influencer_handle = LStripAt(handle)
                   /\ v.influencer_platform = platform}

C11_DeleteReportsNotFound ==
    [][\A p \in Procs :
          (procs[p].op = "idle" /\ procs'[p].op = "remove_vote")
              => votes' # votes]_vars

----------------------------------------------------------------------------
(* Properties of the creation of submissions *)

CreatedLately(ip_hash) ==
    {i \in 1..Len(subs) : /\ subs[i].submitter_ip_hash = ip_hash
                          /\ now - subs[i].created_at < 1}

\* C18: creating a submission is rejected with 429, and nothing is
\* inserted, when the submitter has created 3 or more submissions in the
\* trailing 24 hours: a request gets past a limiter check the store answers
\* only below 3, and a request that ends in its first step is answered with
\* an error and inserts nothing.
C18_SubmissionQuota ==
    [][/\ \A p \in Procs :
             (procs[p].op = "idle" /\ procs'[p].op = "submit")
                => /\ \/ Cardinality(CreatedLately(procs'[p].ip_hash)) < SUBMISSION_LIMIT
                      \/ ~procs'[p].answered
                   /\ subs' = subs
       /\ (procs' = procs /\ last' # last /\ last'.op = "submit")
             => /\ last'.code \in {429, 503}
                /\ subs' = subs]_vars

\* A request of ip1 was answered 429 on the day ip1 created 3 submissions.
C18_Witness ==
    /\ last.op = "submit" /\ last.code = 429
    /\ Cardinality(CreatedLately(hash_ip_address("ip1"))) = SUBMISSION_LIMIT
    /\ \A p \in Procs : procs[p].op = "idle"

----------------------------------------------------------------------------
(* Properties of the review of submissions *)

\* C13: a review that rejects with a missing or empty rejection reason fails
\* with a validation error and leaves the submission unchanged, so no
\* submission is ever rejected without a reason.
C13_RejectedHasReason ==
    \A i \in 1..Len(subs) :
        subs[i].status = "rejected" => subs[i].rejection_reason \notin {None, ""}

\* C14: a review of a submission that is already approved or rejected fails
\* with an error, changes no field of it and publishes nothing: a review
\* request gets past its first step, after which the writes come, only for
\* a submission it read as pending or analyzing, its first step writes
\* neither table, and a review is answered 200 only by a later step.
C14_ReviewOfTerminalFails ==
    [][/\ \A p \in Procs :
             (procs[p].op = "idle" /\ procs'[p].op = "review")
                => /\ subs[procs'[p].sid].status \in {"pending", "analyzing"}
                   /\ subs' = subs /\ market' = market
       /\ (procs' = procs /\ last' # last /\ last'.op = "review")
             => /\ last'.code >= 400
                /\ subs' = subs /\ market' = market]_vars

\* A review of a rejected submission was answered 400.
C14_Witness ==
    /\ last.op = "review" /\ last.code = 400
    /\ last.sid \in 1..Len(subs)
    /\ subs[last.sid].status = "rejected"
    /\ \A p \in Procs : procs[p].op = "idle"

\* C15: approving with add_to_marketplace on a submission that has no
\* analysis_data fails with the 400 that tells the caller to run the
\* analysis first (500 when the store refuses the review write), and
\* nothing is published.
C15_ApproveNeedsAnalysis ==
    [][\A p \in Procs :
          (/\ procs[p].op = "review" /\ procs[p].pc = "write"
           /\ procs'[p] # procs[p]
           /\ procs[p].req.status = "approved"
           /\ procs[p].req.add_to_marketplace
           /\ procs[p].analysis_data = None)
          => /\ procs'[p].op = "idle"
             /\ last'.op = "review"
             /\ last'.code = 400 \/ (last'.code = 500 /\ subs' = subs)
             /\ market' = market]_vars

\* Such a review was answered 400; the submission has no analysis_data.
C15_Witness ==
    /\ last.op = "review" /\ last.code = 400
    /\ last.sid \in 1..Len(subs)
    /\ subs[last.sid].analysis_data = None
    /\ subs[last.sid].reviewed_by = "admin"
    /\ market = {}

\* The marketplace rows of the entity a review slot is about.
MarketRowsOf(slot, table) ==
    {r \in table : /\ r.handle = marketplace_normalize_handle(slot.handle)
                   /\ r.platform = slot.platform}

\* C19: when an approval with add_to_marketplace has analysis_data and the
\* marketplace publish fails, the review still succeeds: the publish step
\* always answers 200 with the decision and rolls nothing back, and when it
\* leaves no marketplace entry of the entity the response carries no
\* marketplace id.
C19_PublishIsBestEffort ==
    [][\A p \in Procs :
          (/\ procs[p].op = "review" /\ procs[p].pc = "publish"
           /\ procs'[p].op = "idle")
          => /\ last'.op = "review" /\ last'.code = 200
             /\ last'.status = "approved"
             /\ subs' = subs
             /\ MarketRowsOf(procs[p], market') = {}
                   => last'.marketplace_id = <<>>
             /\ last'.marketplace_id # <<>>
                   => MarketRowsOf(procs[p], market') # {}]_vars

\* An approval that asked for the marketplace was answered 200 without a
\* marketplace id; the submission is approved, has analysis_data and the
\* marketplace is empty.
C19_Witness ==
    /\ last.op = "review" /\ last.code = 200
    /\ last.add_to_marketplace
    /\ last.marketplace_id = <<>>
    /\ subs[last.sid].status = "approved"
    /\ subs[last.sid].analysis_data # None
    /\ market = {}

----------------------------------------------------------------------------
(* Properties of the vote statistics of an entity without votes *)

\* C21: whenever an entity has no votes, because it was never voted on or
\* because every vote on it was deleted, get_vote_stats reports
\* user_trust_score = 0.50 with trust_votes, distrust_votes and total_votes
\* all 0: every statistics response computed while no vote is stored for the
\* entity is the zero statistics with the half score.
C21_NoVotesHalfScore ==
    [][\A p \in Procs :
          (/\ procs[p].op = "vote_status" /\ procs[p].pc = "stats"
           /\ procs'[p].op = "idle"
           /\ StoredFor(procs[p].handle, procs[p].platform) = {})
          => /\ last'.code = 200
             /\ last'.vote_stats.trust_votes = 0
             /\ last'.vote_stats.distrust_votes = 0
             /\ last'.vote_stats.total_votes = 0
             /\ last'.vote_stats.user_trust_score = HalfScore]_vars

\* The statistics the store answered for an entity whose only vote was cast
\* and then deleted.
C21_Witness ==
    /\ last.op = "vote_status" /\ last.code = 200 /\ last.answered
    /\ last.vote_stats = ZeroStats
    /\ votes = {}
    /\ \E ip \in VoteHosts :
          LET k == VoteKey(last.handle, last.platform, hash_ip_address(ip))
          IN /\ k \in DOMAIN hist.lastWrite
             /\ ~hist.lastWrite[k].present
             /\ hist.lastWrite[k].n >= 1

\* The vote calls the store has counted for the voter in the current hour.
VoteCallsOf(ip_hash) ==
    IF ip_hash \in DOMAIN hist.voteCalls THEN hist.voteCalls[ip_hash] ELSE 0

\* C22: submit_vote is limited to 20 calls per voter identity per rolling
\* hour: once the store has counted 20 vote calls of the voter in the hour,
\* no vote request of that voter gets past the limiter, the request is
\* answered 429 and the vote ledger is unchanged.
C22_VoteQuota ==
    [][VoteCallsOf(hash_ip_address(get_client_ip("ip1"))) >= VOTE_LIMIT
          => /\ \A p \in Procs :
                   procs[p].op = "idle" => procs'[p].op # "vote"
             /\ (/\ procs' = procs
                 /\ hist'.calls = hist.calls + 1
                 /\ last'.op = "vote")
                => (last'.code = 429 /\ votes' = votes)]_vars

\* The 21st vote call of the hour was answered 429 while the voter's earlier
\* vote is stored.
C22_Witness ==
    /\ last.op = "vote" /\ last.code = 429
    /\ VoteCallsOf(hash_ip_address(get_client_ip("ip1"))) = VOTE_LIMIT
    /\ \E v \in votes : v.voter_ip_hash = hash_ip_address(get_client_ip("ip1"))
    /\ \A p \in Procs : procs[p].op = "idle"

----------------------------------------------------------------------------
(* Properties of the ScoreAggregator *)

\* C23: if the reputation judge or the classification of a history post
\* fails during a trust assessment, the assessment still completes, using
\* the neutral default for that sub-score: an assessment whose profile fetch
\* succeeded and whose judge, when it answered, answered in range, is
\* returned, with web reputation 0.5 when the judge call failed and message
\* history 0.5 when every classification failed.
C23_FailuresDegrade ==
    (/\ last.op = "assess" /\ last.fetch_ok
     /\ last.classifier_failed \/ last.judge_failed
     /\ last.judge.kind = "value" => InUnit(last.judge.v))
    => /\ last.response.code = 200
       /\ last.judge_failed
             => last.response.data[1].web_reputation_score = ONE \div 2

\* C25: each of the four sub-scores and the composite trust_score of a
\* returned assessment lies in [0,1].
C25_ScoresInUnit ==
    (last.op = "assess" /\ last.response.code = 200)
    => LET a == last.response.data[1]
       IN /\ InUnit(a.message_history_score)
          /\ InUnit(a.followers_score)
          /\ InUnit(a.web_reputation_score)
          /\ InUnit(a.disclosure_score)
          /\ InUnit(a.trust_score)

\* A returned assessment whose followers score is strictly between the
\* default and 1 and whose judge answered 0.75.
C25_Witness ==
    /\ last.op = "assess" /\ last.response.code = 200
    /\ last.response.data[1].followers_score > ONE \div 2
    /\ last.response.data[1].followers_score < ONE
    /\ last.response.data[1].web_reputation_score = 750000
    /\ last.response.data[1].trust_score > 0

\* The label the specification gives a score.
LabelFor(score) ==
    IF score >= 750000 THEN "high"
    ELSE IF score >= 400000 THEN "medium"
    ELSE "low"

\* C26: the label is a function of the score alone, high from 0.75, medium
\* from 0.40 and low below (0.75 high, 0.749999 medium, 0.4 medium, 0.399999
\* low), and the label of every returned assessment agrees with its
\* trust_score.
C26_LabelFollowsScore ==
    /\ last.op = "label" => last.result = LabelFor(last.score)
    /\ (last.op = "label" /\ last.score = 750000) => last.result = "high"
    /\ (last.op = "label" /\ last.score = 749999) => last.result = "medium"
    /\ (last.op = "label" /\ last.score = 400000) => last.result = "medium"
    /\ (last.op = "label" /\ last.score = 399999) => last.result = "low"
    /\ (last.op = "assess" /\ last.response.code = 200)
          => last.response.data[1].label
                 = LabelFor(last.response.data[1].trust_score)

\* The label of the score 0.75 was computed.
C26_Witness ==
    last.op = "label" /\ last.score = 750000 /\ last.result = "high"

\* C27: combine(mh, followers, web, disclosure) equals 0.30*mh +
\* 0.15*followers + 0.40*web + 0.15*disclosure, so combine(1,1,1,1) = 1.0
\* and combine(0,0,0,0) = 0.0, and the composite of a returned assessment is
\* that combination of its sub-scores.
C27_CombineIsWeightedSum ==
    /\ last.op = "combine"
          => /\ 1000 * last.result = 300 * last.mh + 150 * last.f
                                        + 400 * last.w + 150 * last.d
             /\ (last.mh = ONE /\ last.f = ONE /\ last.w = ONE /\ last.d = ONE)
                   => last.result = ONE
             /\ (last.mh = 0 /\ last.f = 0 /\ last.w = 0 /\ last.d = 0)
                   => last.result = 0
    /\ (last.op = "assess" /\ last.response.code = 200)
          => LET a == last.response.data[1]
             IN a.trust_score =
                    (300 * a.message_history_score + 150 * a.followers_score
                       + 400 * a.web_reputation_score
                       + 150 * a.disclosure_score) \div 1000

\* combine(1, 1, 1, 1) was computed and is 1.
C27_Witness ==
    /\ last.op = "combine" /\ last.result = ONE
    /\ last.mh = ONE /\ last.f = ONE /\ last.w = ONE /\ last.d = ONE

----------------------------------------------------------------------------
(* Properties of the admin gate *)

\* C20: when no admin secret is configured every privileged endpoint
\* rejects every request whatever its Authorization header, and when a
\* secret is configured a request whose bearer credential is missing,
\* malformed or different from the secret is rejected: while no request
\* presents the secret, no privileged handler gets past the gate and every
\* privileged request is answered 401 or 501.
C20_WrongCredentialRejected ==
    /\ \A p \in Procs : procs[p].op \notin PrivilegedOps
    /\ last.op \in PrivilegedOps => last.code \in {401, 501}

----------------------------------------------------------------------------
(* Properties of the analysis of submissions *)

\* C16: an analysis is accepted only for a submission that is pending or
\* analyzing; on an approved or rejected one the request fails, changes
\* nothing and does not run the trust pipeline: a request gets past its
\* first step, after which the pipeline runs, only for a row it read as
\* pending or analyzing, and a request that ends in its first step is
\* answered with an error and writes neither the submissions nor the cache.
C16_AnalysisOnlyWhenOpen ==
    [][/\ \A p \in Procs :
             (procs[p].op = "idle" /\ procs'[p].op = "analyze")
                => /\ subs[procs'[p].sid].status \in {"pending", "analyzing"}
                   /\ subs' = subs /\ cache' = cache
       /\ (procs' = procs /\ last' # last /\ last'.op = "analyze")
             => /\ last'.code >= 400
                /\ subs' = subs /\ cache' = cache]_vars

\* An analysis request on an approved submission was answered 400 and no
\* analysis ever ran.
C16_Witness ==
    /\ last.op = "analyze" /\ last.code = 400
    /\ Len(subs) = 1
    /\ subs[1].status = "approved"
    /\ subs[1].analysis_data = None /\ subs[1].analysis_error = NoError
    /\ cache = {}
    /\ \A p \in Procs : procs[p].op = "idle"

\* C17: a failure of the trust pipeline during an analysis is recorded on
\* the submission as the truncated analysis_error with the status back at
\* pending, and is not raised to the caller: the request that ends after a
\* failed pipeline is not answered with an error.
C17_FailureRecordedNotRaised ==
    [][\A p \in Procs :
          (/\ procs[p].op = "analyze" /\ procs[p].pc = "record_error"
           /\ procs'[p].op = "idle")
          => /\ last'.op = "analyze" /\ last'.code < 400
             /\ subs'[procs[p].sid].status = "pending"
             /\ subs'[procs[p].sid].analysis_error = procs[p].err
             /\ procs[p].err.len <= ERROR_TRUNCATE]_vars


\* C24: getStatus is a pure read.  A get_rate_limit_status call leaves every
\* counter as it was, so the outcome of any later checkAndIncrement call, for
\* any client and group, is the one it would have been without the call.
C24_StatusIsPureRead ==
    [][(last' # last /\ last'.op = "get_rate_limit_status")
          => /\ rlCount' = rlCount
             /\ \A host \in Hosts, g \in Groups, ok \in BOOLEAN :
                    check_rate_limit(host, g, ok)'
                        = check_rate_limit(host, g, ok)]_vars

\* A status read of a counter that already counts requests, answered by the
\* store: the quota it reports is what the counter leaves.
C24_Witness ==
    /\ last.op = "get_rate_limit_status"
    /\ ~last.error
    /\ CountOf(<<get_client_ip(last.host), last.group, now>>) >= 1
    /\ last.remaining
          = dailyLimit - CountOf(<<get_client_ip(last.host), last.group, now>>)
    /\ last.remaining < dailyLimit


\* The arrows of the submission state diagram.
DiagramArrows ==
    { <<"pending", "analyzing">>, <<"analyzing", "pending">>,
      <<"pending", "approved">>, <<"pending", "rejected">> }

\* C28: every status change of a submission follows the state diagram: a
\* submission is created in pending, an analysis moves it from pending to
\* analyzing and from analyzing back to pending, and only a pending
\* submission moves to approved or rejected.
C28_FollowsDiagram ==
    [][/\ \A i \in 1..Len(subs') :
              i > Len(subs) => subs'[i].status = "pending"
       /\ \A i \in 1..Len(subs) :
              subs'[i].status # subs[i].status
                  => <<subs[i].status, subs'[i].status>> \in DiagramArrows]_vars


\* C29: a trust request the RateLimiter denies reads no cache entry, invokes
\* no collaborator and writes no cache entry: it ends in the step of the
\* limiter check, and that step leaves the cache as it was.
C29_DeniedTouchesNothing ==
    [][(/\ hist'.calls = hist.calls + 1
        /\ procs' = procs
        /\ last'.op = "trust"
        /\ last'.code = 429)
          => /\ cache' = cache
             /\ ~last'.looked
             /\ last'.called = {}
             /\ ~last'.wrote]_vars

\* A denied trust request for a name whose assessment is in the cache.
C29_Witness ==
    /\ last.op = "trust"
    /\ last.code = 429
    /\ get_cached(last.kind, last.handle) # <<>>

\* C30: a trust request whose cache read finds a valid entry returns that
\* entry, invokes none of the profile, search, classifier and judge
\* collaborators and writes nothing; a request whose read finds none goes on
\* to one computation, and the write of its result, when the store performs
\* it, puts the result under the key the read used.
C30_HitReturnsMissComputes ==
    [][\A p \in Procs :
          /\ (/\ procs[p].op = "trust" /\ procs[p].pc = "lookup"
              /\ procs'[p] # procs[p]
              /\ procs'[p] = IdleProc => last'.read_ok)
                => IF get_cached(procs[p].kind, procs[p].handle) # <<>>
                   THEN /\ procs'[p] = IdleProc
                        /\ last'.code = 200
                        /\ last'.source = "cache"
                        /\ last'.data = get_cached(procs[p].kind, procs[p].handle)
                        /\ last'.called \cap Collaborators = {}
                        /\ ~last'.wrote
                        /\ cache' = cache
                   ELSE /\ procs'[p].op = "trust"
                        /\ procs'[p].pc = "compute"
                        /\ cache' = cache
          /\ (/\ procs[p].op = "trust" /\ procs[p].pc = "store"
              /\ procs'[p] = IdleProc
              /\ last'.stored)
                => /\ last'.source = "computed"
                   /\ last'.data = procs[p].result
                   /\ \E r \in cache' :
                          /\ r.handle = procs[p].key[1]
                          /\ r.platform = TrustTable(procs[p].kind)
                          /\ r.analysis_data = procs[p].result[1]
                          /\ r.updated_at = now
                   /\ \A q \in cache' :
                          (/\ q.handle = procs[p].key[1]
                           /\ q.platform = TrustTable(procs[p].kind))
                             => q.analysis_data = procs[p].result[1]]_vars

\* A request answered from the cache, under a key that is not the spelling
\* the request gave: an earlier request computed and cached the entry.
C30_Witness ==
    /\ last.op = "trust"
    /\ last.code = 200
    /\ last.source = "cache"
    /\ last.data # <<>>
    /\ last.handle # last.key
    /\ \E r \in cache : r.handle = last.key /\ << r.analysis_data >> = last.data


----------------------------------------------------------------------------
(* Properties of concurrent cache writers and of the cache key *)

\* The entity a name identifies, in the spec's words: lowercased, and for a
\* handle without its leading @.
EntityOf(kind, name) ==
    IF kind = "influencer" THEN Lower(LStripAt(name)) ELSE Lower(name)

\* The rows stored for an entity.
EntriesOf(kind, name) ==
    {r \in cache : r.handle = EntityOf(kind, name)
                    /\ r.platform = TrustTable(kind)}

\* C31: after any interleaving of the puts of concurrent instances there is
\* exactly one entry for a key that was put, that entry is the whole payload
\* of the put the store applied last, and a get of the key returns that
\* payload, never parts of two puts.
C31_LastWriteWins ==
    /\ \A r1 \in cache, r2 \in cache :
          (r1.handle = r2.handle /\ r1.platform = r2.platform) => r1 = r2
    /\ \A r \in cache : r.analysis_data.head = r.analysis_data.tail
    /\ hist.lastPut # <<>> =>
          LET put == hist.lastPut[1] IN
          /\ EntriesOf(put.kind, put.name)
                = { [handle |-> EntityOf(put.kind, put.name),
                     platform |-> TrustTable(put.kind),
                     analysis_data |-> put.data,
                     updated_at |-> put.at] }
          /\ (/\ last.op = "get_cached"
              /\ last.kind = put.kind
              /\ EntityOf(last.kind, last.name) = EntityOf(put.kind, put.name))
                => last.data = << put.data >>

\* Two instances have put different payloads under one key, both puts were
\* applied, and a later get returned the payload of the later one.
C31_Witness ==
    /\ hist.lastPut # <<>>
    /\ \E p \in Procs, q \in Procs :
          /\ p # q
          /\ procs[p].op = "put" /\ procs[p].pc = "done" /\ procs[p].returned
          /\ procs[q].op = "put" /\ procs[q].pc = "done" /\ procs[q].returned
          /\ procs[p].kind = procs[q].kind
          /\ EntityOf(procs[p].kind, procs[p].name)
                = EntityOf(procs[q].kind, procs[q].name)
          /\ procs[p].data # procs[q].data
          /\ last.op = "get_cached"
          /\ last.kind = procs[p].kind
          /\ EntityOf(last.kind, last.name) = EntityOf(procs[p].kind, procs[p].name)
          /\ last.data = << hist.lastPut[1].data >>
          /\ Cardinality(EntriesOf(last.kind, last.name)) = 1

\* C32: cache keys are normalized.  A get under a spelling of the entity
\* that was put last (another letter case, for a handle a leading @ more or
\* less) returns what was put, and a get of one kind never returns an entry
\* put for another kind of the same name.
C32_KeysNormalized ==
    last.op = "get_cached" =>
        /\ last.data # <<>> => last.data[1].of = last.kind
        /\ (/\ hist.lastPut # <<>>
            /\ last.kind = hist.lastPut[1].kind
            /\ EntityOf(last.kind, last.name)
                  = EntityOf(hist.lastPut[1].kind, hist.lastPut[1].name))
              => last.data = << hist.lastPut[1].data >>

\* A get under another spelling than the put's returned the entry, while an
\* entry of another kind is stored under the same name.
C32_Witness ==
    /\ last.op = "get_cached"
    /\ hist.lastPut # <<>>
    /\ last.kind = hist.lastPut[1].kind
    /\ last.name # hist.lastPut[1].name
    /\ last.data = << hist.lastPut[1].data >>
    /\ \E r \in cache : /\ r.handle = EntityOf(last.kind, last.name)
                        /\ r.platform # TrustTable(last.kind)


----------------------------------------------------------------------------
(* Properties of the quota a failing request has consumed *)

\* C33: an increment the limiter committed for a request stays committed
\* when the request fails afterwards.  No step lowers or removes a counter;
\* a request refused for its empty name after the check has raised the
\* counter of its client and group by one; and the step in which a request
\* fails later (cache read, profile fetch, classifier, judge, response
\* model) leaves every counter as it is.
C33_QuotaStaysConsumed ==
    [][/\ \A k \in DOMAIN rlCount :
              k \in DOMAIN rlCount' /\ rlCount'[k] >= rlCount[k]
       /\ (/\ hist'.calls = hist.calls + 1
           /\ procs' = procs
           /\ last'.op = "trust"
           /\ last'.code = 400
           /\ configured)
             => LET k == <<"ip1", TrustGroup(last'.kind), now>>
                IN /\ k \in DOMAIN rlCount'
                   /\ rlCount'[k] = CountOf(k) + 1
       /\ \A p \in Procs :
             (/\ procs[p].op = "trust"
              /\ procs'[p] = IdleProc
              /\ last'.code \notin {200, 429})
                => /\ rlCount' = rlCount
                   /\ configured
                         => CountOf(<<"ip1", TrustGroup(procs[p].kind), now>>) >= 1
                            \/ now > 0]_vars

\* A request that failed after the check, with its increment still counted:
\* the quota of the day is used up by requests that all failed.
C33_Witness ==
    /\ last.op = "trust"
    /\ last.code \in {400, 500, 502, 503}
    /\ CountOf(<<"ip1", TrustGroup(last.kind), now>>) = dailyLimit
    /\ cache = {}


----------------------------------------------------------------------------
(* Properties of the marketplace sync after a vote *)

\* The columns of a marketplace row the sync does not set.
UnsyncedPart(r) ==
    [handle |-> r.handle, platform |-> r.platform, trust |-> r.trust,
     admin_notes |-> r.admin_notes]

\* C34: every vote or vote removal that succeeds attempts the marketplace
\* sync: its 200 answer is given by the step that made the sync call.  That
\* step answers 200 whether or not the sync succeeded, leaves the votes as
\* they are, and changes nothing in the marketplace but user_trust_score and
\* total_votes.
C34_SyncIsBestEffort ==
    [][/\ (last' # last /\ last'.op \in {"vote", "remove_vote"}
                        /\ last'.code = 200)
             => \E p \in Procs : /\ procs[p].op = last'.op
                                 /\ procs[p].pc = "sync"
                                 /\ procs'[p] = IdleProc
       /\ \A p \in Procs :
             (/\ procs[p].op \in {"vote", "remove_vote"}
              /\ procs[p].pc = "sync"
              /\ procs'[p] # procs[p])
                => /\ procs'[p] = IdleProc
                   /\ last'.op = procs[p].op
                   /\ last'.code = 200
                   /\ votes' = votes
                   /\ {UnsyncedPart(r) : r \in market'}
                         = {UnsyncedPart(r) : r \in market}]_vars

\* A vote on a was answered 200 and is stored, while the marketplace entry
\* of a still shows no vote: the sync of that vote failed.
C34_Witness ==
    /\ last.op = "vote"
    /\ last.code = 200
    /\ last.handle = <<"a">>
    /\ hist.calls = 1
    /\ \A p \in Procs : procs[p] = IdleProc
    /\ \E v \in votes : v.influencer_handle = <<"a">>
    /\ \E r \in market : r.handle = <<"a">> /\ r.total_votes = 0


\* The votes stored for the entity a handle names: the handle lowercased and
\* without its leading @.
EntityVotes(handle, platform) ==
    {v \in votes : Lower(LStripAt(v.influencer_handle)) = Lower(LStripAt(handle))
                    /\ v.influencer_platform = platform}

C40_OneEntity ==
    [][\A p \in Procs :
          /\ (/\ procs[p].op = "vote" /\ procs[p].pc = "stats"
              /\ procs'[p] # procs[p])
                => procs'[p].stats.total_votes
                      = Cardinality(EntityVotes(procs[p].req.handle,
                                                procs[p].req.platform))
          /\ (/\ procs[p].op = "vote" /\ procs[p].pc = "sync"
              /\ procs'[p] # procs[p])
                => \A r \in market' :
                      (/\ r.handle = marketplace_normalize_handle(procs[p].req.handle)
                       /\ r.platform = procs[p].req.platform)
                         => r.total_votes
                               = Cardinality(EntityVotes(procs[p].req.handle,
                                                         procs[p].req.platform))]_vars


----------------------------------------------------------------------------
(* Further properties of the SubmissionWorkflow *)

\* The columns a review sets.
ReviewPart(row) ==
    [status |-> row.status, reviewed_by |-> row.reviewed_by,
     reviewed_at |-> row.reviewed_at, admin_notes |-> row.admin_notes,
     rejection_reason |-> row.rejection_reason]

\* C36: a review request that is answered with an error leaves status,
\* reviewed_by, reviewed_at, admin_notes and rejection_reason of every
\* submission as they were: neither the step that answers the error at the
\* start of the request nor the step that answers it after the start
\* changes them.
C36_FailedReviewChangesNothing ==
    [][/\ (/\ procs' = procs
           /\ last' # last
           /\ last'.op = "review"
           /\ last'.code # 200)
             => subs' = subs
       /\ \A p \in Procs :
             (/\ procs[p].op = "review"
              /\ procs'[p] = IdleProc
              /\ last'.op = "review"
              /\ last'.code # 200)
                => /\ Len(subs') = Len(subs)
                   /\ \A i \in 1..Len(subs) :
                          ReviewPart(subs'[i]) = ReviewPart(subs[i])]_vars


\* C37: at every moment at most one submission of a (handle, platform) is
\* pending or analyzing, whatever the interleaving of the requests that
\* create submissions.
C37_OneOpenSubmission ==
    \A i \in 1..Len(subs), j \in 1..Len(subs) :
        (/\ i # j
         /\ Lower(LStripAt(subs[i].handle)) = Lower(LStripAt(subs[j].handle))
         /\ subs[i].platform = subs[j].platform
         /\ ~Terminal(subs[i].status))
           => Terminal(subs[j].status)


\* C38: in every reachable state, under any interleaving of analyses and
\* reviews, a submission has reviewed_by and reviewed_at set exactly when its
\* status is approved or rejected.
C38_ReviewedIffTerminal ==
    \A i \in 1..Len(subs) :
        (subs[i].reviewed_by # None /\ subs[i].reviewed_at # NoTime)
            <=> Terminal(subs[i].status)


\* C39: the review workflow writes to the marketplace only in the publish
\* step of a review that set the submission to approved, asked for
\* add_to_marketplace and found analysis_data; the steps of a rejection, or
\* of an approval without add_to_marketplace, never change the marketplace
\* and answer without a marketplace id.
C39_PublishOnlyApproved ==
    [][/\ market' # market
          => \E p \in Procs :
                /\ procs[p].op = "review" /\ procs[p].pc = "publish"
                /\ procs'[p] = IdleProc
                /\ procs[p].req.status = "approved"
                /\ procs[p].req.add_to_marketplace
                /\ procs[p].analysis_data # None
                /\ subs[procs[p].sid].reviewed_by = "admin"
                /\ \A r \in market' \ market :
                      /\ r.handle = marketplace_normalize_handle(procs[p].handle)
                      /\ r.platform = procs[p].platform
       /\ \A p \in Procs :
             (/\ procs[p].op = "review"
              /\ procs'[p] # procs[p]
              /\ \/ procs[p].req.status = "rejected"
                 \/ ~procs[p].req.add_to_marketplace)
                => /\ market' = market
                   /\ procs'[p] = IdleProc
                   /\ last'.code = 200 => last'.marketplace_id = <<>>]_vars

\* A rejection was answered 200 while the marketplace holds the entry that
\* the approval of an analysed submission published.
C39_Witness ==
    /\ market # {}
    /\ \E i \in 1..Len(subs) :
          /\ subs[i].status = "approved"
          /\ subs[i].analysis_data # None
          /\ \E r \in market :
                r.handle = marketplace_normalize_handle(subs[i].handle)
    /\ \A p \in Procs : procs[p] = IdleProc

====
